---- MODULE Spec2Model ----
(***************************************************************************)
(* DenDen core: event construction, proof-of-work mining, signing and      *)
(* publishing (internal/pow, internal/client, mobile/reposts), the NIP-44  *)
(* channel (internal/crypto), the contact-list edits (mobile Follow /      *)
(* Unfollow) and the inbox dispatch (mobile/events, internal/client).      *)
(*                                                                         *)
(* Text is modelled by TLA+ strings.  Keys are decimal numerals of small   *)
(* group elements, event ids are sequences of hex digits (0..15; 16 is a   *)
(* character that is not a hex digit).                                     *)
(***************************************************************************)
EXTENDS Integers, Sequences, FiniteSets, TLC

\* ------------------------------------------------------------------ bounds
MaxNonce == 10
MaxClock == 2
MaxDifficulty == 6
HashBytes == 3
MaxCalls == 2
MaxFollowCalls == 2
MaxInbound == 2
MaxOps == 2
MaxMsgOps == 2
ChanCap == 1

\* program starts, each one call of EnsureIdentity
MaxRuns == 3

\* kind-0 events the session handles
MaxWrites == 2

\* characters of a text handed to CheckDifficulty
MaxHexLen == 4
MaxContentLen == 5 \* characters of a note's content
MaxFetched == 2    \* events a query returns to GetUserMedia
MaxLimit == 2      \* the limit argument of GetUserMedia

\* ------------------------------------------------------------ text helpers
Digit == <<"0", "1", "2", "3", "4", "5", "6", "7", "8", "9">>

RECURSIVE Itoa(_)
\* strconv.Itoa: decimal numeral of an integer
Itoa(n) ==
    IF n < 0 THEN "-" \o Itoa(0 - n)
    ELSE IF n < 10 THEN Digit[n + 1]
    ELSE Itoa(n \div 10) \o Digit[(n % 10) + 1]

Numerals == [n \in 0..63 |-> Itoa(n)]

IsNumeral(s) == \E n \in 0..63 : Numerals[n] = s

\* value of a decimal numeral (hex.DecodeString of a key, in this model)
Atoi(s) == CHOOSE n \in 0..63 : Numerals[n] = s

Words == <<"", "p", "e", "q", "nonce", "r", "zz", "wss://relay", "hello",
           "bob", "npub3", "npubx", "petname", "+", "unlike">>

\* the bytes of a string as one number, for the digest
StrCode(s) ==
    IF \E i \in 1..Len(Words) : Words[i] = s
    THEN CHOOSE i \in 1..Len(Words) : Words[i] = s
    ELSE 64 + Atoi(s)

\* ---------------------------------------------------------------- the keys
\* secp256k1 is modelled by the multiplicative group mod 29 with generator 2:
\* the public key of scalar k is 2^k, and a key string is a decimal numeral.
ValidScalar(s) == IsNumeral(s) /\ Atoi(s) >= 1 /\ Atoi(s) <= 27

ValidPoint(s) == IsNumeral(s) /\ Atoi(s) >= 1 /\ Atoi(s) <= 28

\* nostr.GetPublicKey
RECURSIVE ModExp(_, _)
ModExp(b, e) == IF e = 0 THEN 1 ELSE (b * ModExp(b, e - 1)) % 29

GetPublicKey(sk) == Itoa(ModExp(2, Atoi(sk)))

PrivKeys == {"2", "3", "5"}

\* the key pair of a remote party that writes to the local identity
RemoteKey == "5"

\* ------------------------------------------------------------------ events
NoSig == [signer |-> "", id |-> <<>>]

Text(s) == [t |-> "text", s |-> s]

RECURSIVE SumSeq(_)
SumSeq(s) == IF s = <<>> THEN 0 ELSE (Head(s) + 3 * SumSeq(Tail(s))) % 4096

Mix(h, x) == (h * 33 + x + 1) % 1048576

RECURSIVE MixStrs(_, _)
MixStrs(h, ss) ==
    IF ss = <<>> THEN Mix(h, 0)
    ELSE MixStrs(Mix(h, StrCode(Head(ss))), Tail(ss))

RECURSIVE MixTags(_, _)
MixTags(h, tags) ==
    IF tags = <<>> THEN Mix(h, 0)
    ELSE MixTags(MixStrs(h, Head(tags)), Tail(tags))

ContentCode(c) ==
    CASE c.t = "text" -> StrCode(c.s)
      [] c.t = "nip44" -> 500 + c.version + 7 * c.nonce + 11 * SumSeq(c.ct)
                          + 13 * c.mac.key + 17 * c.mac.nonce
      [] c.t = "json" -> 900 + StrCode(c.id) + 5 * StrCode(c.pubkey)
      [] c.t = "nip04" -> 700 + c.key + 31 * c.iv + StrCode(c.text)
      [] OTHER -> 999

\* Event.Serialize: [0, pubkey, created_at, kind, tags, content], as a number
Serialize(ev) ==
    Mix(MixTags(Mix(Mix(Mix(Mix(5381, 0), StrCode(ev.PubKey)), ev.CreatedAt),
                    ev.Kind), ev.Tags), ContentCode(ev.Content))

\* Stand-in for SHA-256: a deterministic digest of the serialization, HashBytes
\* bytes long.  The number of leading zero bits is spread evenly over
\* 0..8*HashBytes, so that qualifying nonces exist within MaxNonce attempts.
Digest(m) ==
    LET z == m % (8 * HashBytes + 1)
        r == m \div (8 * HashBytes + 1)
    IN [i \in 1..HashBytes |->
          IF i <= z \div 8 THEN 0
          ELSE IF i = (z \div 8) + 1
               THEN (2 ^ (7 - (z % 8))) + (r % (2 ^ (7 - (z % 8))))
               ELSE (r * (i + 6)) % 256]

\* hex.EncodeToString
HexEncode(bytes) ==
    [i \in 1..(2 * Len(bytes)) |->
        IF i % 2 = 1 THEN bytes[(i + 1) \div 2] \div 16
        ELSE bytes[i \div 2] % 16]

HexValid(s) == Len(s) % 2 = 0 /\ \A i \in 1..Len(s) : s[i] \in 0..15

\* hex.DecodeString (of a string for which HexValid holds)
HexDecode(s) == [i \in 1..(Len(s) \div 2) |-> 16 * s[2 * i - 1] + s[2 * i]]

\* Event.GetID
GetID(ev) == HexEncode(Digest(Serialize(ev)))

\* bits.LeadingZeros8
LeadingZeros8(b) ==
    IF b = 0 THEN 8
    ELSE CHOOSE k \in 0..7 : (2 ^ (7 - k)) <= b /\ b < (2 ^ (8 - k))

\* a count that looks at the first byte only
countLeadingZeroBitsFirstByte(data) ==
    IF data = <<>> THEN 0 ELSE LeadingZeros8(Head(data))

RECURSIVE countLeadingZeroBits(_)
countLeadingZeroBits(data) ==
    IF data = <<>> THEN 0
    ELSE IF Head(data) = 0 THEN 8 + countLeadingZeroBits(Tail(data))
    ELSE LeadingZeros8(Head(data))

CheckDifficultyOffByOne(eventID, difficulty) ==
    IF ~HexValid(eventID) THEN FALSE
    ELSE countLeadingZeroBits(HexDecode(eventID)) + 1 >= difficulty

CheckDifficulty(eventID, difficulty) ==
    IF ~HexValid(eventID) THEN FALSE
    ELSE countLeadingZeroBits(HexDecode(eventID)) >= difficulty

GetDifficultyRecommendation(messageType) ==
    CASE messageType = "private" -> 12
      [] messageType = "group" -> 16
      [] messageType = "public" -> 20
      [] OTHER -> 12

\* index of the first tag named "nonce", 0 when there is none
RECURSIVE FirstNonce(_, _)
FirstNonce(tags, i) ==
    IF i > Len(tags) THEN 0
    ELSE IF Len(tags[i]) > 0 /\ tags[i][1] = "nonce" THEN i
    ELSE FirstNonce(tags, i + 1)

SetNonceTagAppend(tags, nonceTag) == Append(tags, nonceTag)

SetNonceTagClear(tags, nonceTag) == <<nonceTag>>

\* MineEvent steps 1-3: overwrite the first nonce tag, or append one
SetNonceTag(tags, nonceTag) ==
    IF FirstNonce(tags, 1) > 0
    THEN [tags EXCEPT ![FirstNonce(tags, 1)] = nonceTag]
    ELSE Append(tags, nonceTag)

\* Event.Sign: derives the public key, recomputes the id, signs the id.
\* The signature is the pair (signer, signed id); ok is FALSE for a secret
\* key that does not decode.
SignOk(sk) == ValidScalar(sk)

Sign(ev, sk) ==
    LET e1 == [ev EXCEPT !.PubKey = GetPublicKey(sk)]
        id == GetID(e1)
    IN [e1 EXCEPT !.ID = id, !.Sig = [signer |-> GetPublicKey(sk), id |-> id]]

\* Event.CheckSignature
CheckSignature(ev) ==
    /\ ev.ID = GetID(ev)
    /\ ev.Sig = [signer |-> ev.PubKey, id |-> ev.ID]

\* ------------------------------------------------------- NIP-44 (go-nostr)
\* nip44.GenerateConversationKey(pub, sk): ECDH (pub^sk in the group) followed
\* by the key-derivation step, a bijection of the shared element.
ConversationKeyOk(pub, sk) == ValidPoint(pub) /\ ValidScalar(sk)

GenerateConversationKey(pub, sk) ==
    (7 * ModExp(Atoi(pub), Atoi(sk)) + 3) % 29

RECURSIVE Log2Floor(_)
Log2Floor(n) == IF n <= 1 THEN 0 ELSE 1 + Log2Floor(n \div 2)

\* nip44 calcPadding: the padded length of a plaintext of sLen bytes
CalcPadding(sLen) ==
    IF sLen <= 32 THEN 32
    ELSE LET nextPower == 2 ^ (Log2Floor(sLen - 1) + 1)
             chunk == IF nextPower <= 256 THEN 32 ELSE nextPower \div 8
         IN chunk * (((sLen - 1) \div chunk) + 1)

\* length prefix, plaintext, zero padding
Pad(plain) ==
    <<Len(plain)>> \o plain
        \o [i \in 1..(CalcPadding(Len(plain)) - Len(plain)) |-> 0]

\* ChaCha20 keystream byte i under the message key of (key, nonce)
KeyStream(key, nonce, i) == (key * 7 + nonce * 13 + i * 5) % 256

\* HMAC-SHA256 of nonce and ciphertext under the message key: a tag that only
\* the same key, nonce and ciphertext reproduce
Hmac(key, nonce, ct) == [key |-> key, nonce |-> nonce, ct |-> ct]

\* nip44.Encrypt(plaintext, conversationKey) with the random nonce drawn
\* by the caller of this operator; the result stands for the base64 payload
Nip44EncryptOk(plain) == Len(plain) >= 1 /\ Len(plain) <= 65535

Nip44Encrypt(plain, key, nonce) ==
    LET padded == Pad(plain)
        ct == [i \in 1..Len(padded) |->
                 (padded[i] + KeyStream(key, nonce, i)) % 256]
    IN [t |-> "nip44", version |-> 2, nonce |-> nonce, ct |-> ct,
        mac |-> Hmac(key, nonce, ct)]

Unpad(c, key) ==
    [i \in 1..Len(c.ct) |->
        (c.ct[i] + 256 - KeyStream(key, c.nonce, i)) % 256]

\* nip44.Decrypt(payload, conversationKey): "" when it succeeds, else the error
Nip44DecryptErr(c, key) ==
    IF c.t # "nip44" THEN "invalid base64"
    ELSE IF c.version # 2 THEN "unknown version"
    ELSE IF Len(c.ct) < 2 THEN "invalid data size"
    ELSE IF c.mac # Hmac(key, c.nonce, c.ct) THEN "invalid hmac"
    ELSE LET padded == Unpad(c, key)
         IN IF padded[1] < 1 \/ Len(padded) # 1 + CalcPadding(padded[1])
            THEN "invalid padding"
            ELSE ""

Nip44DecryptOffByOne(c, key) ==
    LET padded == Unpad(c, key) IN SubSeq(padded, 1, padded[1])

Nip44Decrypt(c, key) ==
    LET padded == Unpad(c, key) IN SubSeq(padded, 2, 1 + padded[1])

\* ------------------------------------------------------- internal/crypto
NoContent == Text("")

\* crypto.Encrypt(plaintext, senderPrivKey, recipientPubKey)
Encrypt(plaintext, senderPrivKey, recipientPubKey, nonce) ==
    IF ~ConversationKeyOk(recipientPubKey, senderPrivKey)
    THEN [ciphertext |-> NoContent, key |-> 0 - 1,
          err |-> "Failed to generate conversation key"]
    ELSE LET conversationKey ==
                 GenerateConversationKey(recipientPubKey, senderPrivKey)
         IN IF ~Nip44EncryptOk(plaintext)
            THEN [ciphertext |-> NoContent, key |-> conversationKey,
                  err |-> "Failed to encrypt"]
            ELSE [ciphertext |->
                      Nip44Encrypt(plaintext, conversationKey, nonce),
                  key |-> conversationKey, err |-> ""]

DecryptSwapped(ciphertext, recipientPrivKey, senderPubKey) ==
    IF ~ConversationKeyOk(recipientPrivKey, senderPubKey)
    THEN [plaintext |-> <<>>, key |-> 0 - 1,
          err |-> "Failed to generate conversation key"]
    ELSE LET conversationKey ==
                 GenerateConversationKey(recipientPrivKey, senderPubKey)
         IN IF Nip44DecryptErr(ciphertext, conversationKey) # ""
            THEN [plaintext |-> <<>>, key |-> conversationKey,
                  err |-> "Failed to decrypt"]
            ELSE [plaintext |-> Nip44Decrypt(ciphertext, conversationKey),
                  key |-> conversationKey, err |-> ""]

DecryptLeaky(ciphertext, recipientPrivKey, senderPubKey) ==
    IF ~ConversationKeyOk(senderPubKey, recipientPrivKey)
    THEN [plaintext |-> <<>>, key |-> 0 - 1,
          err |-> "Failed to generate conversation key"]
    ELSE LET conversationKey ==
                 GenerateConversationKey(senderPubKey, recipientPrivKey)
         IN IF Nip44DecryptErr(ciphertext, conversationKey) # ""
            THEN [plaintext |->
                      IF ciphertext.t = "nip44"
                      THEN Unpad(ciphertext, conversationKey) ELSE <<>>,
                  key |-> conversationKey, err |-> "Failed to decrypt"]
            ELSE [plaintext |-> Nip44Decrypt(ciphertext, conversationKey),
                  key |-> conversationKey, err |-> ""]

\* crypto.Decrypt(ciphertext, recipientPrivKey, senderPubKey); key records the
\* conversation key the call derived
Decrypt(ciphertext, recipientPrivKey, senderPubKey) ==
    IF ~ConversationKeyOk(senderPubKey, recipientPrivKey)
    THEN [plaintext |-> <<>>, key |-> 0 - 1,
          err |-> "Failed to generate conversation key"]
    ELSE LET conversationKey ==
                 GenerateConversationKey(senderPubKey, recipientPrivKey)
         IN IF Nip44DecryptErr(ciphertext, conversationKey) # ""
            THEN [plaintext |-> <<>>, key |-> conversationKey,
                  err |-> "Failed to decrypt"]
            ELSE [plaintext |-> Nip44Decrypt(ciphertext, conversationKey),
                  key |-> conversationKey, err |-> ""]

\* ------------------------------------------------------------------ state
VARIABLES
    identity,   \* Client.identity: PrivateKey and PublicKey as loaded
    connected,  \* Client.relay # nil
    clock,      \* time.Now().Unix()
    pc,         \* position of the running operation
    op,         \* the running operation
    event,      \* the event the operation works on
    nonce,      \* MineEvent: candidate nonce
    attempts,   \* MineEvent: attempts so far
    target,     \* MineEvent: targetDifficulty
    orig,       \* the event as it was when MineEvent was called
    stages,     \* the stages the operation has completed, in order
    sent,       \* events handed to Relay.Publish, in order
    result,     \* what the operation returned
    calls,      \* operations completed so far
    cpc,        \* crypto round trip: position
    enc,        \* crypto round trip: the Encrypt call and its result
    dec,        \* crypto round trip: the Decrypt call and its result
    relayStore, \* the kind-3 events of the local identity held by the relay
    fpc,        \* Follow/Unfollow: position of each caller
    fop,        \* Follow/Unfollow: the operation of each caller
    farg,       \* Follow/Unfollow: the pubkey argument of each caller
    fans,       \* Follow/Unfollow: what QuerySync returned to each caller
    fstore,     \* what the relay held when it was queried by each caller
    flog,       \* the Follow/Unfollow calls that have returned, in order
    fcount,     \* Follow/Unfollow calls started so far
    gflog,      \* the GetFollowing calls that have returned, in order
    listener,   \* which client is listening: "", "cli" or "mobile"
    callback,   \* DenDenClient.callback # nil
    subEvents,  \* sub.Events: events the relay has sent, not yet forwarded
    eventChan,  \* the channel returned by Relay.Subscribe
    consumer,   \* what the console or the mobile callback has received
    inlog,      \* the events processEvent has handled, with what it emitted
    profileCache, \* DenDenClient.profileCache
    inCount,    \* events the relay has sent so far
    loop,       \* handleIncomingEvents: "off", "running" or "stopped"
    cancelled,  \* Close was called: the context is done, stopChan is closed
    subClosed,  \* sub.Events is closed
    chanClosed, \* eventChan is closed
    arrived,    \* every event the relay has sent, in order
    gprog,      \* per goroutine: the lock and cache steps it has still to do
    wlock,      \* per cache: the goroutine holding the write lock, 0 for none
    rlock,      \* per cache: the goroutines holding the read lock
    gacc,       \* per goroutine: the cache access it is in the middle of
    gops,       \* cache operations started so far
    wwait,      \* per cache: the goroutine inside Lock that waits for the readers
    chatCache,  \* DenDenClient.chatCache: partner -> messages
    likeCache,  \* DenDenClient.likeCache: post id -> like event id
    dmStore,    \* the kind-4 events the relay holds
    mpc,        \* per goroutine: where it is in a messaging operation
    mheld,      \* per goroutine: the locals of that operation
    mlog,       \* the messaging operations that have returned
    mcount,     \* messaging operations started so far
    idFiles,    \* the file system: path -> the identity file at that path
    idlog,      \* the EnsureIdentity calls that have returned
    idcount,    \* EnsureIdentity calls so far
    plog,       \* the profile writes handled so far, in the order handled
    pcount,     \* metadata events handled so far
    got,        \* the GetProfile call of the session and what it returned
    media,      \* the GetUserMedia call of the session and what it returned
    convs,      \* the GetConversationList call of the session and its result
    delivery,   \* a direct message sent to the local identity and what each
                \* receive path made of it
    checked     \* the last call of CheckDifficulty: arguments and result

sendVars == <<identity, connected, clock, pc, op, event, nonce, attempts,
              target, orig, stages, sent, result, calls>>

cryptoVars == <<cpc, enc, dec>>

followVars == <<relayStore, fpc, fop, farg, fans, fstore, flog, fcount, gflog>>

inboxVars == <<listener, callback, subEvents, eventChan, consumer, inlog,
               profileCache, inCount, loop, cancelled, subClosed, chanClosed,
               arrived>>

lockVars == <<gprog, wlock, rlock, gacc, gops, wwait>>

msgVars == <<chatCache, likeCache, dmStore, mpc, mheld, mlog, mcount>>

idVars == <<idFiles, idlog, idcount>>

profVars == <<plog, pcount, got>>

powVars == <<checked>>

readVars == <<media, convs, delivery>>

vars == <<sendVars, cryptoVars, followVars, inboxVars, lockVars, msgVars, idVars, profVars, powVars, readVars>>

NoEvent == [ID |-> <<>>, PubKey |-> "", CreatedAt |-> 0, Kind |-> 0,
            Tags |-> <<>>, Content |-> NoContent, Sig |-> NoSig]

Identities == {[PrivateKey |-> "2", PublicKey |-> GetPublicKey("2")],
               [PrivateKey |-> "zz", PublicKey |-> GetPublicKey("2")]}

Plaintexts == {<<>>, <<1>>, <<2, 1>>}

Nonces == {1, 2}

NoEnc == [plain |-> <<>>, a |-> "", b |-> "", out |-> Encrypt(<<>>, "", "", 0)]

NoDec == [priv |-> "", pub |-> "", env |-> NoContent,
          out |-> Decrypt(NoContent, "", "")]

SendInit ==
    /\ identity \in Identities
    /\ connected = FALSE
    /\ clock = 0
    /\ pc = "idle"
    /\ op = ""
    /\ event = NoEvent
    /\ nonce = 0
    /\ attempts = 0
    /\ target = 0
    /\ orig = NoEvent
    /\ stages = <<>>
    /\ sent = <<>>
    /\ result = ""
    /\ calls = 0

CryptoInit ==
    /\ cpc = "idle"
    /\ enc = NoEnc
    /\ dec = NoDec

Callers == {1, 2}

\* the contact list the relay may hold at the start: p tags with a relay hint
\* and a petname, a relay tag, a p tag without a value, a second p tag
ContactListA ==
    Sign([NoEvent EXCEPT !.Kind = 3,
                         !.Tags = << <<"p", "8", "wss://relay", "bob">>,
                                     <<"r", "wss://relay">>,
                                     <<"p">>,
                                     <<"p", "8">> >>,
                         !.Content = Text("hello")], "2")

NoAnswer == [ok |-> FALSE, events |-> <<>>]

FollowInit ==
    /\ relayStore \in {<<>>, <<ContactListA>>}
    /\ fpc = [c \in Callers |-> "idle"]
    /\ fop = [c \in Callers |-> ""]
    /\ farg = [c \in Callers |-> ""]
    /\ fans = [c \in Callers |-> NoAnswer]
    /\ fstore = [c \in Callers |-> <<>>]
    /\ flog = <<>>
    /\ fcount = 0
    /\ gflog = <<>>

InboxInit ==
    /\ listener = ""
    /\ callback = FALSE
    /\ subEvents = <<>>
    /\ eventChan = <<>>
    /\ consumer = <<>>
    /\ inlog = <<>>
    /\ profileCache = <<>>
    /\ inCount = 0
    /\ loop = "off"
    /\ cancelled = FALSE
    /\ subClosed = FALSE
    /\ chanClosed = FALSE
    /\ arrived = <<>>

Goroutines == {1, 2}

Caches == {"profile", "like", "chat"}

NoAccess == [c |-> "", mode |-> ""]

LockInit ==
    /\ gprog = [g \in Goroutines |-> <<>>]
    /\ wlock = [c \in Caches |-> 0]
    /\ rlock = [c \in Caches |-> {}]
    /\ gacc = [g \in Goroutines |-> NoAccess]
    /\ gops = 0
    /\ wwait = [c \in Caches |-> 0]

Receivers == {GetPublicKey("3"), "zz"}

Posts == {"7"}

NoLike == <<>>

NoHeld == [op |-> ""]

MsgInit ==
    /\ chatCache = [r \in Receivers \cup {GetPublicKey(RemoteKey)} |-> <<>>]
    /\ likeCache = [post \in Posts |-> NoLike]
    /\ dmStore = <<>>
    /\ mpc = [g \in Goroutines |-> "idle"]
    /\ mheld = [g \in Goroutines |-> NoHeld]
    /\ mlog = <<>>
    /\ mcount = 0

\* the paths an identity file is kept under
Paths == {"a.json", "b.json"}

\* an Identity value; the zero value stands for a nil *Identity
NilIdentity == [PrivateKey |-> "", PublicKey |-> "", Nsec |-> "", Npub |-> ""]

\* no file at the path
NoFile == [exists |-> FALSE, data |-> <<>>, whole |-> FALSE, readable |-> FALSE]

IdInit ==
    /\ idFiles = [p \in Paths |-> NoFile]
    /\ idlog = <<>>
    /\ idcount = 0

ReadInit ==
    /\ media = [called |-> FALSE]
    /\ convs = [called |-> FALSE]
    /\ delivery = [called |-> FALSE]

PowInit ==
    checked = [called |-> FALSE, id |-> <<>>, difficulty |-> 0,
               result |-> FALSE, zeros |-> 0]

ProfInit ==
    /\ plog = <<>>
    /\ pcount = 0
    /\ got = [called |-> FALSE]

Init ==
    /\ SendInit /\ CryptoInit /\ FollowInit /\ InboxInit /\ LockInit /\ MsgInit
    /\ IdInit
    /\ ProfInit
    /\ PowInit
    /\ ReadInit

\* ------------------------------------------------------------ environment
\* the wall clock advances
Tick ==
    /\ clock < MaxClock
    /\ clock' = clock + 1
    /\ UNCHANGED <<identity, connected, pc, op, event, nonce, attempts,
                   target, orig, stages, sent, result, calls>>
    /\ UNCHANGED <<cryptoVars, followVars, inboxVars, lockVars, msgVars, idVars, profVars, powVars, readVars>>

\* Client.Connect, when relay.Connect succeeds
Connect ==
    /\ pc = "idle"
    /\ ~connected
    /\ connected' = TRUE
    /\ UNCHANGED <<identity, clock, pc, op, event, nonce, attempts, target,
                   orig, stages, sent, result, calls>>
    /\ UNCHANGED <<cryptoVars, followVars, inboxVars, lockVars, msgVars, idVars, profVars, powVars, readVars>>

\* ----------------------------------------------------------------- mining
TagLists == {
    <<>>,
    << <<"p", "3">> >>,
    << <<"nonce", "7", "1">> >>,
    << <<"p", "3">>, <<"nonce", "7", "1">>, <<"e", "5">> >>,
    << <<>>, <<"nonce">>, <<"r", "wss://relay">>, <<"nonce", "9", "9">> >> }

\* entry of MineEvent(event, targetDifficulty)
StartMining(o, ev, d, st) ==
    /\ op' = o
    /\ event' = ev
    /\ orig' = ev
    /\ target' = d
    /\ nonce' = 0
    /\ attempts' = 0
    /\ stages' = st
    /\ result' = ""
    /\ pc' = "mining"

\* an operation returns an error before anything was built
Fail(o, msg) ==
    /\ op' = o
    /\ result' = msg
    /\ pc' = "done"
    /\ stages' = <<>>
    /\ UNCHANGED <<event, orig, target, nonce, attempts>>

\* a direct call of pow.MineEvent, as in the command-line demo
MineEventCall ==
    /\ pc = "idle"
    /\ calls < MaxCalls
    /\ \E tags \in TagLists, k \in {1, 4}, d \in 0..MaxDifficulty :
          StartMining("MineEvent",
                      [NoEvent EXCEPT !.PubKey = identity.PublicKey,
                                      !.CreatedAt = clock, !.Kind = k,
                                      !.Tags = tags,
                                      !.Content = Text("hello")],
                      d, <<>>)
    /\ UNCHANGED <<identity, connected, clock, sent, calls>>
    /\ UNCHANGED <<cryptoVars, followVars, inboxVars, lockVars, msgVars, idVars, profVars, powVars, readVars>>

\* an iteration that hashes the event before it sets the tag and the time
MineAttemptStaleId ==
    /\ pc = "mining"
    /\ nonce <= MaxNonce
    /\ LET nonceTag == <<"nonce", Itoa(nonce), Itoa(target)>>
           e1 == [event EXCEPT !.Tags = SetNonceTag(event.Tags, nonceTag),
                               !.CreatedAt = clock]
           e2 == [e1 EXCEPT !.ID = GetID(event)]
       IN /\ event' = e2
          /\ attempts' = attempts + 1
          /\ IF CheckDifficulty(e2.ID, target)
             THEN /\ pc' = "mined"
                  /\ nonce' = nonce
                  /\ stages' = IF op = "MineEvent" THEN stages
                               ELSE Append(stages, "mine")
             ELSE /\ pc' = "mining"
                  /\ nonce' = nonce + 1
                  /\ stages' = stages
    /\ UNCHANGED <<identity, connected, clock, op, target, orig, sent, result,
                   calls>>
    /\ UNCHANGED <<cryptoVars, followVars, inboxVars, lockVars, msgVars, idVars, profVars, powVars, readVars>>

\* an iteration that leaves the created-at of the caller in the event
MineAttemptKeepsCreatedAt ==
    /\ pc = "mining"
    /\ nonce <= MaxNonce
    /\ LET nonceTag == <<"nonce", Itoa(nonce), Itoa(target)>>
           e1 == [event EXCEPT !.Tags = SetNonceTag(event.Tags, nonceTag)]
           e2 == [e1 EXCEPT !.ID = GetID(e1)]
       IN /\ event' = e2
          /\ attempts' = attempts + 1
          /\ IF CheckDifficulty(e2.ID, target)
             THEN /\ pc' = "mined"
                  /\ nonce' = nonce
                  /\ stages' = IF op = "MineEvent" THEN stages
                               ELSE Append(stages, "mine")
             ELSE /\ pc' = "mining"
                  /\ nonce' = nonce + 1
                  /\ stages' = stages
    /\ UNCHANGED <<identity, connected, clock, op, target, orig, sent, result,
                   calls>>
    /\ UNCHANGED <<cryptoVars, followVars, inboxVars, lockVars, msgVars, idVars, profVars, powVars, readVars>>

\* an iteration that looks at the session context and stops when it is
\* cancelled
MineAttemptCancellable ==
    /\ pc = "mining"
    /\ nonce <= MaxNonce
    /\ LET nonceTag == <<"nonce", Itoa(nonce), Itoa(target)>>
           e1 == [event EXCEPT !.Tags = SetNonceTag(event.Tags, nonceTag),
                               !.CreatedAt = clock]
           e2 == [e1 EXCEPT !.ID = GetID(e1)]
       IN IF cancelled
          THEN /\ pc' = "done"
               /\ result' = "failed to mine event"
               /\ UNCHANGED <<event, attempts, nonce, stages>>
          ELSE /\ event' = e2
               /\ attempts' = attempts + 1
               /\ result' = result
               /\ IF CheckDifficulty(e2.ID, target)
                  THEN /\ pc' = "mined"
                       /\ nonce' = nonce
                       /\ stages' = IF op = "MineEvent" THEN stages
                                    ELSE Append(stages, "mine")
                  ELSE /\ pc' = "mining"
                       /\ nonce' = nonce + 1
                       /\ stages' = stages
    /\ UNCHANGED <<identity, connected, clock, op, target, orig, sent, calls>>
    /\ UNCHANGED <<cryptoVars, followVars, inboxVars, lockVars, msgVars, idVars, profVars, powVars, readVars>>

\* an iteration that gives the search up after the second attempt
MineAttemptGivesUp ==
    /\ pc = "mining"
    /\ nonce <= MaxNonce
    /\ LET nonceTag == <<"nonce", Itoa(nonce), Itoa(target)>>
           e1 == [event EXCEPT !.Tags = SetNonceTag(event.Tags, nonceTag),
                               !.CreatedAt = clock]
           e2 == [e1 EXCEPT !.ID = GetID(e1)]
       IN /\ event' = e2
          /\ attempts' = attempts + 1
          /\ IF CheckDifficulty(e2.ID, target)
             THEN /\ pc' = "mined"
                  /\ nonce' = nonce
                  /\ stages' = IF op = "MineEvent" THEN stages
                               ELSE Append(stages, "mine")
                  /\ result' = result
             ELSE IF attempts >= 2
             THEN /\ pc' = "done"
                  /\ nonce' = nonce
                  /\ stages' = stages
                  /\ result' = "failed to mine event"
             ELSE /\ pc' = "mining"
                  /\ nonce' = nonce + 1
                  /\ stages' = stages
                  /\ result' = result
    /\ UNCHANGED <<identity, connected, clock, op, target, orig, sent, calls>>
    /\ UNCHANGED <<cryptoVars, followVars, inboxVars, lockVars, msgVars, idVars, profVars, powVars, readVars>>

\* one iteration of the loop of MineEvent
MineAttempt ==
    /\ pc = "mining"
    /\ nonce <= MaxNonce
    /\ LET nonceTag == <<"nonce", Itoa(nonce), Itoa(target)>>
           e1 == [event EXCEPT !.Tags = SetNonceTag(event.Tags, nonceTag),
                               !.CreatedAt = clock]
           e2 == [e1 EXCEPT !.ID = GetID(e1)]
       IN /\ event' = e2
          /\ attempts' = attempts + 1
          /\ IF CheckDifficulty(e2.ID, target)
             THEN /\ pc' = "mined"
                  /\ nonce' = nonce
                  /\ stages' = IF op = "MineEvent" THEN stages
                               ELSE Append(stages, "mine")
             ELSE /\ pc' = "mining"
                  /\ nonce' = nonce + 1
                  /\ stages' = stages
    /\ UNCHANGED <<identity, connected, clock, op, target, orig, sent, result,
                   calls>>
    /\ UNCHANGED <<cryptoVars, followVars, inboxVars, lockVars, msgVars, idVars, profVars, powVars, readVars>>

\* --------------------------------------------------- operations that mine
Recipients == {"3", "npub3", "npubx", "zz"}

IsNpub(s) == s \in {"npub3", "npubx"}

\* identity.DecodePublicKey: "" when the bech32 text does not decode
DecodePublicKey(npub) == IF npub = "npub3" THEN "3" ELSE ""

\* Client.SendEncryptedMessage up to the call of pow.MineEvent
SendEncryptedMessage ==
    /\ pc = "idle"
    /\ calls < MaxCalls
    /\ \E recipientPubKey \in Recipients, content \in Plaintexts, n \in Nonces :
          LET decoded == IF IsNpub(recipientPubKey)
                         THEN DecodePublicKey(recipientPubKey)
                         ELSE recipientPubKey
              encrypted == Encrypt(content, identity.PrivateKey, decoded, n)
          IN IF ~connected
             THEN Fail("SendEncryptedMessage", "not connected to any relay")
             ELSE IF IsNpub(recipientPubKey) /\ decoded = ""
             THEN Fail("SendEncryptedMessage",
                       "failed to decode recipient public key")
             ELSE IF encrypted.err # ""
             THEN Fail("SendEncryptedMessage", "failed to encrypt message")
             ELSE StartMining("SendEncryptedMessage",
                      [NoEvent EXCEPT !.PubKey = identity.PublicKey,
                                      !.CreatedAt = clock, !.Kind = 4,
                                      !.Tags = << <<"p", decoded>> >>,
                                      !.Content = encrypted.ciphertext],
                      GetDifficultyRecommendation("private"), <<"build">>)
    /\ UNCHANGED <<identity, connected, clock, sent, calls>>
    /\ UNCHANGED <<cryptoVars, followVars, inboxVars, lockVars, msgVars, idVars, profVars, powVars, readVars>>

OriginalEvents == {[t |-> "json", id |-> "7", pubkey |-> "8"], Text("zz")}

\* DenDenClient.Repost up to the call of pow.MineEvent
Repost ==
    /\ pc = "idle"
    /\ calls < MaxCalls
    /\ \E originalEventJson \in OriginalEvents :
          IF ~connected
          THEN Fail("Repost", "not connected to relay")
          ELSE IF originalEventJson.t # "json"
          THEN Fail("Repost", "invalid original event json")
          ELSE StartMining("Repost",
                   [NoEvent EXCEPT !.PubKey = identity.PublicKey,
                                   !.CreatedAt = clock, !.Kind = 6,
                                   !.Tags = << <<"e", originalEventJson.id,
                                                 "wss://relay">>,
                                               <<"p", originalEventJson.pubkey>> >>,
                                   !.Content = originalEventJson],
                   GetDifficultyRecommendation("public"), <<"build">>)
    /\ UNCHANGED <<identity, connected, clock, sent, calls>>
    /\ UNCHANGED <<cryptoVars, followVars, inboxVars, lockVars, msgVars, idVars, profVars, powVars, readVars>>

\* DenDenClient.QuotePost up to the call of pow.MineEvent
QuotePost ==
    /\ pc = "idle"
    /\ calls < MaxCalls
    /\ \E content \in {"hello", ""}, quotedEventId \in {"7"},
          authorPubkey \in {"8"} :
          IF ~connected
          THEN Fail("QuotePost", "not connected to relay")
          ELSE StartMining("QuotePost",
                   [NoEvent EXCEPT !.PubKey = identity.PublicKey,
                                   !.CreatedAt = clock, !.Kind = 1,
                                   !.Tags = << <<"q", quotedEventId,
                                                 "wss://relay">>,
                                               <<"p", authorPubkey>> >>,
                                   !.Content = Text(content)],
                   GetDifficultyRecommendation("public"), <<"build">>)
    /\ UNCHANGED <<identity, connected, clock, sent, calls>>
    /\ UNCHANGED <<cryptoVars, followVars, inboxVars, lockVars, msgVars, idVars, profVars, powVars, readVars>>

\* a plausible slip: the event is signed as soon as it is built
SignStepBeforeMining ==
    /\ pc = "mining" /\ attempts = 0
    /\ op # "MineEvent"
    /\ SignOk(identity.PrivateKey)
    /\ event' = Sign(event, identity.PrivateKey)
    /\ pc' = "signed"
    /\ stages' = Append(stages, "sign")
    /\ result' = result
    /\ UNCHANGED <<identity, connected, clock, op, nonce, attempts, target,
                   orig, sent, calls>>
    /\ UNCHANGED <<cryptoVars, followVars, inboxVars, lockVars, msgVars, idVars, profVars, powVars, readVars>>

\* event.Sign(privateKey) after MineEvent has returned, and the error return
SignStep ==
    /\ pc = "mined"
    /\ op # "MineEvent"
    /\ IF SignOk(identity.PrivateKey)
       THEN /\ event' = Sign(event, identity.PrivateKey)
            /\ pc' = "signed"
            /\ stages' = Append(stages, "sign")
            /\ result' = result
       ELSE /\ event' = event
            /\ pc' = "done"
            /\ stages' = stages
            /\ result' = "failed to sign event"
    /\ UNCHANGED <<identity, connected, clock, op, nonce, attempts, target,
                   orig, sent, calls>>
    /\ UNCHANGED <<cryptoVars, followVars, inboxVars, lockVars, msgVars, idVars, profVars, powVars, readVars>>

\* relay.Publish(ctx, event) and the return of the operation
PublishStep ==
    /\ pc = "signed"
    /\ \E ok \in BOOLEAN :
          result' = IF ok THEN "ok" ELSE "failed to publish event"
    /\ sent' = Append(sent, event)
    /\ stages' = Append(stages, "publish")
    /\ pc' = "done"
    /\ UNCHANGED <<identity, connected, clock, op, event, nonce, attempts,
                   target, orig, calls>>
    /\ UNCHANGED <<cryptoVars, followVars, inboxVars, lockVars, msgVars, idVars, profVars, powVars, readVars>>

\* the caller takes the result; the client is ready for the next operation
Return ==
    /\ pc = "done" \/ (pc = "mined" /\ op = "MineEvent")
    /\ pc' = "idle"
    /\ op' = ""
    /\ event' = NoEvent
    /\ orig' = NoEvent
    /\ nonce' = 0
    /\ attempts' = 0
    /\ target' = 0
    /\ stages' = <<>>
    /\ sent' = <<>>
    /\ result' = ""
    /\ calls' = calls + 1
    /\ UNCHANGED <<identity, connected, clock>>
    /\ UNCHANGED <<cryptoVars, followVars, inboxVars, lockVars, msgVars, idVars, profVars, powVars, readVars>>

Next ==
    \/ Tick
    \/ Connect
    \/ MineEventCall
    \/ MineAttempt
    \/ SendEncryptedMessage
    \/ Repost
    \/ QuotePost
    \/ SignStep
    \/ PublishStep
    \/ Return

Spec == Init /\ [][Next]_vars

\* the loop of MineEvent has no blocking call, so it keeps iterating while
\* it can: WF_vars(MineAttempt), written out with the guard of MineAttempt
\* for ENABLED <<MineAttempt>>_vars (every iteration counts an attempt)
MineAttemptFair ==
    \/ []<>(~(pc = "mining" /\ nonce <= MaxNonce))
    \/ []<><<MineAttempt>>_vars

SpecMineFair == Spec /\ MineAttemptFair

\* ------------------------------------------------- encryption round trip
\* what a relay or an attacker can turn a payload into without the key
Envelopes(c) ==
    IF c.t # "nip44" THEN {c, Text("zz")}
    ELSE {c,
          Text("zz"),
          [c EXCEPT !.version = 1],
          [c EXCEPT !.nonce = c.nonce + 1],
          [c EXCEPT !.ct[2] = (c.ct[2] + 1) % 256],
          [c EXCEPT !.ct = SubSeq(c.ct, 1, Len(c.ct) - 1)],
          [c EXCEPT !.ct = <<>>],
          [c EXCEPT !.mac.nonce = c.mac.nonce + 1]}

\* crypto.Encrypt called by a sender a for the public key of b
EncryptCall ==
    /\ cpc = "idle"
    /\ \E p \in Plaintexts, a \in PrivKeys, b \in PrivKeys, n \in Nonces :
          enc' = [plain |-> p, a |-> a, b |-> b,
                  out |-> Encrypt(p, a, GetPublicKey(b), n)]
    /\ cpc' = "encrypted"
    /\ dec' = dec
    /\ UNCHANGED <<sendVars, followVars, inboxVars, lockVars, msgVars, idVars, profVars, powVars, readVars>>

\* crypto.Decrypt called by some recipient on some payload
DecryptCall ==
    /\ cpc = "encrypted"
    /\ \E priv \in PrivKeys \cup {"zz"}, sender \in PrivKeys,
          env \in Envelopes(enc.out.ciphertext) :
          dec' = [priv |-> priv, pub |-> GetPublicKey(sender), env |-> env,
                  out |-> Decrypt(env, priv, GetPublicKey(sender))]
    /\ cpc' = "decrypted"
    /\ enc' = enc
    /\ UNCHANGED <<sendVars, followVars, inboxVars, lockVars, msgVars, idVars, profVars, powVars, readVars>>

CryptoNext == EncryptCall \/ DecryptCall

SpecCrypto == Init /\ [][CryptoNext]_vars

\* ------------------------------------------------------ Follow / Unfollow
Targets == {"8", "3"}

\* the orders in which the relay can return the events it holds
Orders(store) ==
    {p \in [1..Len(store) -> 1..Len(store)] :
        \A i, j \in 1..Len(store) : i # j => p[i] # p[j]}

\* Relay.QuerySync: an error (no events), or the stored events in some order
QueryAnswers(store) ==
    {NoAnswer} \cup
    {[ok |-> TRUE, events |-> [i \in 1..Len(store) |-> store[p[i]]]] :
        p \in Orders(store)}

\* "Find newest": index of the event the loop leaves in currentEvent, 0 for nil
RECURSIVE Newest(_, _, _)
Newest(events, i, cur) ==
    IF i > Len(events) THEN cur
    ELSE IF cur = 0 \/ events[i].CreatedAt > events[cur].CreatedAt
         THEN Newest(events, i + 1, i)
         ELSE Newest(events, i + 1, cur)

\* "Find newest" leaving the first event of the answer in currentEvent
CurrentEventFirstReturned(events) ==
    IF events = <<>> THEN <<>> ELSE <<events[1]>>

\* currentEvent as a sequence: empty for nil
CurrentEvent(events) ==
    IF Newest(events, 1, 0) = 0 THEN <<>>
    ELSE <<events[Newest(events, 1, 0)]>>

IsFollowTag(tag, pubkey) == Len(tag) >= 2 /\ tag[1] = "p" /\ tag[2] = pubkey

\* Follow step 2: alreadyFollowing
AlreadyFollowing(current, pubkeyToFollow) ==
    /\ current # <<>>
    /\ \E i \in 1..Len(current[1].Tags) :
          IsFollowTag(current[1].Tags[i], pubkeyToFollow)

\* Follow step 2: newTags, every tag of the current list and the new p tag
FollowTags(current, pubkeyToFollow) ==
    (IF current = <<>> THEN <<>> ELSE current[1].Tags)
        \o << <<"p", pubkeyToFollow>> >>

RECURSIVE UnfollowTags(_, _)
\* Unfollow "Filter tags": the tags without the p tags of the pubkey
UnfollowTags(tags, pubkeyToUnfollow) ==
    IF tags = <<>> THEN <<>>
    ELSE IF IsFollowTag(Head(tags), pubkeyToUnfollow)
         THEN UnfollowTags(Tail(tags), pubkeyToUnfollow)
         ELSE <<Head(tags)>> \o UnfollowTags(Tail(tags), pubkeyToUnfollow)

\* evt.Sign(privateKey) with the error ignored: a failed Sign leaves the event
\* without id and signature
SignIgnoringError(ev, sk) == IF SignOk(sk) THEN Sign(ev, sk) ELSE ev

\* the kind-3 event Follow builds and signs
FollowEvent(current, pubkeyToFollow, now) ==
    SignIgnoringError(
        [NoEvent EXCEPT !.Kind = 3, !.PubKey = identity.PublicKey,
                        !.CreatedAt = now,
                        !.Tags = FollowTags(current, pubkeyToFollow),
                        !.Content = IF current = <<>> THEN Text("")
                                    ELSE current[1].Content],
        identity.PrivateKey)

\* the kind-3 event Unfollow builds and signs
UnfollowEvent(current, pubkeyToUnfollow, now) ==
    SignIgnoringError(
        [NoEvent EXCEPT !.Kind = 3, !.PubKey = identity.PublicKey,
                        !.CreatedAt = now,
                        !.Tags = UnfollowTags(current[1].Tags, pubkeyToUnfollow),
                        !.Content = current[1].Content],
        identity.PrivateKey)

\* a call returns: it is logged and the caller is free again
Returns(c, o, x, published, accepted, res) ==
    /\ flog' = Append(flog, [caller |-> c, op |-> o, arg |-> x,
                             answer |-> fans[c], store |-> fstore[c],
                             published |-> published, accepted |-> accepted,
                             result |-> res])
    /\ fpc' = [fpc EXCEPT ![c] = "idle"]

\* Follow and Unfollow up to the return of QuerySync
ContactQuery(c) ==
    /\ fpc[c] = "idle"
    /\ fcount < MaxFollowCalls
    /\ fcount' = fcount + 1
    /\ \E o \in {"Follow", "Unfollow"}, x \in Targets :
          /\ fop' = [fop EXCEPT ![c] = o]
          /\ farg' = [farg EXCEPT ![c] = x]
          /\ IF ~connected
             THEN /\ flog' = Append(flog,
                        [caller |-> c, op |-> o, arg |-> x,
                         answer |-> NoAnswer, store |-> relayStore,
                         published |-> <<>>, accepted |-> FALSE,
                         result |-> "error: not connected to relay"])
                  /\ UNCHANGED <<fpc, fans, fstore>>
             ELSE /\ \E a \in QueryAnswers(relayStore) :
                        fans' = [fans EXCEPT ![c] = a]
                  /\ fstore' = [fstore EXCEPT ![c] = relayStore]
                  /\ fpc' = [fpc EXCEPT ![c] = "queried"]
                  /\ flog' = flog
    /\ UNCHANGED <<relayStore, gflog>>
    /\ UNCHANGED <<sendVars, cryptoVars, inboxVars, lockVars, msgVars, idVars, profVars, powVars, readVars>>

\* Relay.Publish of a contact list: the relay accepts only a signed event
PublishContacts(c, o, evt) ==
    \E ok \in BOOLEAN :
        IF ok /\ CheckSignature(evt)
        THEN /\ relayStore' = Append(relayStore, evt)
             /\ Returns(c, o, farg[c], <<evt>>, TRUE, "ok")
        ELSE /\ relayStore' = relayStore
             /\ Returns(c, o, farg[c], <<evt>>, FALSE, "error: publish")

FollowFinishOnFreshList(c) ==
    /\ fpc[c] = "queried"
    /\ fop[c] = "Follow"
    /\ LET current == CurrentEvent(relayStore)
       IN IF AlreadyFollowing(current, farg[c])
          THEN /\ Returns(c, "Follow", farg[c], <<>>, FALSE,
                          "already_following")
               /\ relayStore' = relayStore
          ELSE PublishContacts(c, "Follow",
                               FollowEvent(current, farg[c], clock))
    /\ UNCHANGED <<fop, farg, fans, fstore, fcount, gflog>>
    /\ UNCHANGED <<sendVars, cryptoVars, inboxVars, lockVars, msgVars, idVars, profVars, powVars, readVars>>

\* Follow from "Find newest" to its return
FollowFinish(c) ==
    /\ fpc[c] = "queried"
    /\ fop[c] = "Follow"
    /\ LET current == CurrentEvent(fans[c].events)
       IN IF AlreadyFollowing(current, farg[c])
          THEN /\ Returns(c, "Follow", farg[c], <<>>, FALSE,
                          "already_following")
               /\ relayStore' = relayStore
          ELSE PublishContacts(c, "Follow",
                               FollowEvent(current, farg[c], clock))
    /\ UNCHANGED <<fop, farg, fans, fstore, fcount, gflog>>
    /\ UNCHANGED <<sendVars, cryptoVars, inboxVars, lockVars, msgVars, idVars, profVars, powVars, readVars>>

\* Unfollow from its loop over the events to its return
UnfollowFinish(c) ==
    /\ fpc[c] = "queried"
    /\ fop[c] = "Unfollow"
    /\ LET current == CurrentEvent(fans[c].events)
       IN IF current = <<>> \/ ~AlreadyFollowing(current, farg[c])
          THEN /\ Returns(c, "Unfollow", farg[c], <<>>, FALSE,
                          "not_following")
               /\ relayStore' = relayStore
          ELSE PublishContacts(c, "Unfollow",
                               UnfollowEvent(current, farg[c], clock))
    /\ UNCHANGED <<fop, farg, fans, fstore, fcount, gflog>>
    /\ UNCHANGED <<sendVars, cryptoVars, inboxVars, lockVars, msgVars, idVars, profVars, powVars, readVars>>

RECURSIVE FollowingOf(_)
\* GetFollowing "Extract 'p' tags": the second element of every p tag
FollowingOf(tags) ==
    IF tags = <<>> THEN <<>>
    ELSE IF Len(Head(tags)) >= 2 /\ Head(tags)[1] = "p"
         THEN <<Head(tags)[2]>> \o FollowingOf(Tail(tags))
         ELSE FollowingOf(Tail(tags))

\* json.Marshal of the following slice: a nil slice is rendered as null
MarshalFollowing(following) ==
    IF following = <<>> THEN [json |-> "null", items |-> <<>>]
    ELSE [json |-> "array", items |-> following]

\* GetFollowing of the local identity's pubkey, from its call to its return;
\* the session calls it once
GetFollowing ==
    /\ gflog = <<>>
    /\ IF ~connected
       THEN gflog' = Append(gflog, [answer |-> NoAnswer, store |-> relayStore,
                                    result |-> [json |-> "[]", items |-> <<>>]])
       ELSE \E a \in QueryAnswers(relayStore) :
               LET latest == CurrentEvent(a.events)
               IN gflog' = Append(gflog,
                     [answer |-> a, store |-> relayStore,
                      result |-> IF ~a.ok \/ Len(a.events) = 0 \/ latest = <<>>
                                 THEN [json |-> "[]", items |-> <<>>]
                                 ELSE MarshalFollowing(
                                          FollowingOf(latest[1].Tags))])
    /\ UNCHANGED <<relayStore, fpc, fop, farg, fans, fstore, flog, fcount>>
    /\ UNCHANGED <<sendVars, cryptoVars, inboxVars, lockVars, msgVars, idVars, profVars, powVars, readVars>>

FollowNext ==
    \/ Tick
    \/ Connect
    \/ \E c \in Callers : ContactQuery(c)
    \/ \E c \in Callers : FollowFinish(c)
    \/ \E c \in Callers : UnfollowFinish(c)

SpecFollow == Init /\ [][FollowNext]_vars

\* the contact-list edits together with the reading of the list
FollowingNext == FollowNext \/ GetFollowing

SpecFollowing == Init /\ [][FollowingNext]_vars

\* ------------------------------------------------------------------ inbox
\* a signed event of the remote party
RemoteEvent(kind, tags, content) ==
    Sign([NoEvent EXCEPT !.Kind = kind, !.Tags = tags, !.Content = content],
         RemoteKey)

GoodEnvelope ==
    Encrypt(<<1, 2>>, RemoteKey, GetPublicKey("2"), 1).ciphertext

\* kind-4 events addressed to the local identity: decryptable, corrupted in
\* the ciphertext, not a payload at all, encrypted for somebody else
InboundDMs ==
    {RemoteEvent(4, << <<"p", GetPublicKey("2")>> >>, c) :
        c \in {GoodEnvelope,
               [GoodEnvelope EXCEPT !.ct[2] = (GoodEnvelope.ct[2] + 1) % 256],
               Text("zz"),
               Encrypt(<<1>>, RemoteKey, GetPublicKey("3"), 1).ciphertext}}

\* a second remote author
OtherRemoteKey == "3"

\* kind-0 contents: two profiles, a text that is not JSON, and a JSON value
\* that json.Unmarshal cannot store in a Profile
InboundOthers ==
    {RemoteEvent(0, <<>>, [t |-> "profile", name |-> "bob",
                           picture |-> "wss://relay"]),
     RemoteEvent(0, <<>>, [t |-> "profile", name |-> "", picture |-> "bob"]),
     RemoteEvent(0, <<>>, Text("zz")),
     RemoteEvent(0, <<>>, [t |-> "array"]),
     RemoteEvent(1, <<>>, Text("hello")),
     Sign([NoEvent EXCEPT !.Kind = 1, !.Content = Text("hello")],
          OtherRemoteKey),
     RemoteEvent(6, << <<"e", "7">> >>, Text("hello"))}

\* what the relay can send to a listener: the internal client subscribes to
\* kind 4; for the mobile client the relay is not assumed to honour the
\* filter on kinds 0 and 1
Inbound(l) == IF l = "cli" THEN InboundDMs ELSE InboundDMs \cup InboundOthers

RECURSIVE LeadingDigit(_)
LeadingDigit(n) == IF n < 10 THEN n ELSE LeadingDigit(n \div 10)

\* event.PubKey[:16]: the leading part of the key text (one digit here)
Prefix16(pubkey) == Itoa(LeadingDigit(Atoi(pubkey)))

RECURSIVE escapeJSON(_)
\* escapeJSON on a text given by its characters: 0 is the backslash and 2 the
\* double quote, each written with a backslash before it
escapeJSON(s) ==
    IF s = <<>> THEN <<>>
    ELSE (IF Head(s) \in {0, 2} THEN <<0, Head(s)>> ELSE <<Head(s)>>)
            \o escapeJSON(Tail(s))

NoProfile == [name |-> "", picture |-> ""]

\* DenDenClient.getProfileFromCache
getProfileFromCache(pubkey) ==
    IF \E i \in 1..Len(profileCache) : profileCache[i].pubkey = pubkey
    THEN (CHOOSE e \in {profileCache[i] : i \in 1..Len(profileCache)} :
              e.pubkey = pubkey).profile
    ELSE NoProfile

cacheProfileOnError(pubkey, content) ==
    LET entry == [pubkey |-> pubkey,
                  profile |-> IF content.t = "profile"
                              THEN [name |-> content.name,
                                    picture |-> content.picture]
                              ELSE NoProfile]
        Other(e) == e.pubkey # pubkey
    IN Append(SelectSeq(profileCache, Other), entry)

\* DenDenClient.cacheProfile: the cache after a kind-0 content was handled
cacheProfile(pubkey, content) ==
    IF content.t # "profile" THEN profileCache
    ELSE LET entry == [pubkey |-> pubkey,
                       profile |-> [name |-> content.name,
                                    picture |-> content.picture]]
             Other(e) == e.pubkey # pubkey
         IN Append(SelectSeq(profileCache, Other), entry)

\* Client.processEvent: what it prints for an event
CliNotes(ev) ==
    LET d == Decrypt(ev.Content, identity.PrivateKey, ev.PubKey)
    IN IF d.err # ""
       THEN << [kind |-> 4, error |-> "Failed to decrypt message",
                sender |-> Prefix16(ev.PubKey), detail |-> d.err] >>
       ELSE << [kind |-> 4, sender |-> Prefix16(ev.PubKey),
                content |-> d.plaintext, time |-> ev.CreatedAt] >>

MobileNotesDropErrors(ev) ==
    CASE ev.Kind = 1 ->
            << [kind |-> 1, sender |-> ev.PubKey, content |-> ev.Content.s,
                time |-> ev.CreatedAt, eventId |-> ev.ID,
                authorName |-> getProfileFromCache(ev.PubKey).name,
                avatarUrl |-> getProfileFromCache(ev.PubKey).picture] >>
      [] ev.Kind = 4 ->
            LET d == Decrypt(ev.Content, identity.PrivateKey, ev.PubKey)
            IN IF d.err # "" THEN <<>>
               ELSE << [kind |-> 4, sender |-> ev.PubKey,
                        content |-> escapeJSON(d.plaintext),
                        time |-> ev.CreatedAt, eventId |-> ev.ID,
                        authorName |-> getProfileFromCache(ev.PubKey).name,
                        avatarUrl |->
                            getProfileFromCache(ev.PubKey).picture] >>
      [] OTHER -> <<>>

\* DenDenClient.processEvent: the messages it builds for an event
MobileNotes(ev) ==
    CASE ev.Kind = 1 ->
            << [kind |-> 1, sender |-> ev.PubKey, content |-> ev.Content.s,
                time |-> ev.CreatedAt, eventId |-> ev.ID,
                authorName |-> getProfileFromCache(ev.PubKey).name,
                avatarUrl |-> getProfileFromCache(ev.PubKey).picture] >>
      [] ev.Kind = 4 ->
            LET d == Decrypt(ev.Content, identity.PrivateKey, ev.PubKey)
            IN IF d.err # ""
               THEN << [kind |-> 4, error |-> "Failed to decrypt message",
                        sender |-> Prefix16(ev.PubKey)] >>
               ELSE << [kind |-> 4, sender |-> ev.PubKey,
                        content |-> escapeJSON(d.plaintext),
                        time |-> ev.CreatedAt, eventId |-> ev.ID,
                        authorName |-> getProfileFromCache(ev.PubKey).name,
                        avatarUrl |->
                            getProfileFromCache(ev.PubKey).picture] >>
      [] OTHER -> <<>>

\* Client.StartListening, when the subscription succeeds
CliStartListening ==
    /\ listener = ""
    /\ connected
    /\ ~cancelled
    /\ listener' = "cli"
    /\ loop' = "running"
    /\ UNCHANGED <<callback, subEvents, eventChan, consumer, inlog,
                   profileCache, inCount, cancelled, subClosed, chanClosed,
                   arrived>>
    /\ UNCHANGED <<sendVars, cryptoVars, followVars, lockVars, msgVars, idVars, profVars, powVars, readVars>>

\* DenDenClient.StartListening(callback), when the subscription succeeds
MobileStartListening ==
    /\ listener = ""
    /\ connected
    /\ ~cancelled
    /\ listener' = "mobile"
    /\ loop' = "running"
    /\ \E cb \in BOOLEAN : callback' = cb
    /\ UNCHANGED <<subEvents, eventChan, consumer, inlog, profileCache,
                   inCount, cancelled, subClosed, chanClosed, arrived>>
    /\ UNCHANGED <<sendVars, cryptoVars, followVars, lockVars, msgVars, idVars, profVars, powVars, readVars>>

\* the relay sends an event on the subscription
RelaySend ==
    /\ listener # ""
    /\ ~subClosed
    /\ inCount < MaxInbound
    /\ \E ev \in Inbound(listener) :
          /\ subEvents' = Append(subEvents, ev)
          /\ arrived' = Append(arrived, ev)
    /\ inCount' = inCount + 1
    /\ UNCHANGED <<listener, callback, eventChan, consumer, inlog,
                   profileCache, loop, cancelled, subClosed, chanClosed>>
    /\ UNCHANGED <<sendVars, cryptoVars, followVars, lockVars, msgVars, idVars, profVars, powVars, readVars>>

\* the goroutine of Relay.Subscribe: eventChan <- event, which blocks while
\* the channel is full
Forward ==
    /\ subEvents # <<>>
    /\ Len(eventChan) < ChanCap
    /\ eventChan' = Append(eventChan, Head(subEvents))
    /\ subEvents' = Tail(subEvents)
    /\ UNCHANGED <<listener, callback, consumer, inlog, profileCache, inCount,
                   loop, cancelled, subClosed, chanClosed, arrived>>
    /\ UNCHANGED <<sendVars, cryptoVars, followVars, lockVars, msgVars, idVars, profVars, powVars, readVars>>

\* a forwarding goroutine that closes eventChan as soon as sub.Events is
\* closed, with events still waiting in it
CloseChanBeforeDrained ==
    /\ subClosed
    /\ ~chanClosed
    /\ chanClosed' = TRUE
    /\ UNCHANGED <<listener, callback, subEvents, eventChan, consumer, inlog,
                   profileCache, inCount, loop, cancelled, subClosed, arrived>>
    /\ UNCHANGED <<sendVars, cryptoVars, followVars, lockVars, msgVars, idVars, profVars, powVars, readVars>>

\* the goroutine of Relay.Subscribe: the range over sub.Events ends and the
\* deferred close(eventChan) runs
CloseChan ==
    /\ subClosed
    /\ subEvents = <<>>
    /\ ~chanClosed
    /\ chanClosed' = TRUE
    /\ UNCHANGED <<listener, callback, subEvents, eventChan, consumer, inlog,
                   profileCache, inCount, loop, cancelled, subClosed, arrived>>
    /\ UNCHANGED <<sendVars, cryptoVars, followVars, lockVars, msgVars, idVars, profVars, powVars, readVars>>

\* Client.Close, and DenDenClient.Close which closes stopChan before it: the
\* session is cancelled and the relay connection closed
Close ==
    /\ ~cancelled
    /\ cancelled' = TRUE
    /\ UNCHANGED <<listener, callback, subEvents, eventChan, consumer, inlog,
                   profileCache, inCount, loop, subClosed, chanClosed, arrived>>
    /\ UNCHANGED <<sendVars, cryptoVars, followVars, lockVars, msgVars, idVars, profVars, powVars, readVars>>

\* the subscription of a cancelled session ends: sub.Events is closed
SubscriptionEnds ==
    /\ cancelled
    /\ listener # ""
    /\ ~subClosed
    /\ subClosed' = TRUE
    /\ UNCHANGED <<listener, callback, subEvents, eventChan, consumer, inlog,
                   profileCache, inCount, loop, cancelled, chanClosed, arrived>>
    /\ UNCHANGED <<sendVars, cryptoVars, followVars, lockVars, msgVars, idVars, profVars, powVars, readVars>>

LoopAfterStopOnError(notes) ==
    IF notes # <<>> /\ "error" \in DOMAIN notes[1] THEN "stopped" ELSE "running"

\* handleIncomingEvents after processEvent returns: the for loop goes on
LoopAfter(notes) == "running"

\* Client.handleIncomingEvents: the select takes the eventChan case, one event
\* is received and processed
CliDispatch ==
    /\ listener = "cli"
    /\ loop = "running"
    /\ eventChan # <<>>
    /\ LET ev == Head(eventChan)
       IN /\ consumer' = consumer \o CliNotes(ev)
          /\ inlog' = Append(inlog, [via |-> "cli", event |-> ev,
                                     present |-> TRUE, after |-> cancelled,
                                     notes |-> CliNotes(ev),
                                     cacheBefore |-> profileCache,
                                     cacheAfter |-> profileCache])
          /\ loop' = LoopAfter(CliNotes(ev))
    /\ eventChan' = Tail(eventChan)
    /\ UNCHANGED <<listener, callback, subEvents, profileCache, inCount,
                   cancelled, subClosed, chanClosed, arrived>>
    /\ UNCHANGED <<sendVars, cryptoVars, followVars, lockVars, msgVars, idVars, profVars, powVars, readVars>>

\* DenDenClient.handleIncomingEvents: the select takes the eventChan case, one
\* event is received and processed
MobileDispatch ==
    /\ listener = "mobile"
    /\ loop = "running"
    /\ eventChan # <<>>
    /\ LET ev == Head(eventChan)
           notes == IF callback THEN MobileNotes(ev) ELSE <<>>
           cache == IF ev.Kind = 0 THEN cacheProfile(ev.PubKey, ev.Content)
                    ELSE profileCache
       IN /\ consumer' = consumer \o notes
          /\ inlog' = Append(inlog, [via |-> "mobile", event |-> ev,
                                     present |-> callback, after |-> cancelled,
                                     notes |-> notes,
                                     cacheBefore |-> profileCache,
                                     cacheAfter |-> cache])
          /\ profileCache' = cache
          /\ loop' = LoopAfter(MobileNotes(ev))
    /\ eventChan' = Tail(eventChan)
    /\ UNCHANGED <<listener, callback, subEvents, inCount, cancelled,
                   subClosed, chanClosed, arrived>>
    /\ UNCHANGED <<sendVars, cryptoVars, followVars, lockVars, msgVars, idVars, profVars, powVars, readVars>>

\* handleIncomingEvents returns: the select takes a done case (stopChan or the
\* session context), or the receive finds the channel closed and empty
LoopReturn ==
    /\ loop = "running"
    /\ cancelled \/ (chanClosed /\ eventChan = <<>>)
    /\ loop' = "stopped"
    /\ UNCHANGED <<listener, callback, subEvents, eventChan, consumer, inlog,
                   profileCache, inCount, cancelled, subClosed, chanClosed,
                   arrived>>
    /\ UNCHANGED <<sendVars, cryptoVars, followVars, lockVars, msgVars, idVars, profVars, powVars, readVars>>

InboxNext ==
    \/ Connect
    \/ CliStartListening
    \/ MobileStartListening
    \/ RelaySend
    \/ Forward
    \/ CloseChan
    \/ Close
    \/ SubscriptionEnds
    \/ CliDispatch
    \/ MobileDispatch
    \/ LoopReturn

SpecInbox == Init /\ [][InboxNext]_vars

\* the goroutines are scheduled fairly; the relay and the caller of Close are
\* under no obligation
SpecInboxFair ==
    /\ SpecInbox
    /\ WF_vars(Forward)
    /\ WF_vars(CloseChan)
    /\ WF_vars(SubscriptionEnds)
    /\ WF_vars(CliDispatch)
    /\ WF_vars(MobileDispatch)
    /\ WF_vars(LoopReturn)

\* Client.Close called while an operation of the session is inside MineEvent
CloseDuringSearch == pc = "mining" /\ Close

\* the operations that mine, with Close coming while one of them searches
SpecClose == Init /\ [][Next \/ CloseDuringSearch]_vars

\* ------------------------------------------------------------ cache locks
Step(do, c) == [do |-> do, c |-> c]

cacheProfileStepsUnlocked == << Step("write", "profile") >>

\* cacheProfile when it takes the chat lock inside the profile lock
cacheProfileStepsThenChat ==
    << Step("Lock", "profile"), Step("write", "profile"),
       Step("Lock", "chat"), Step("read", "chat"), Step("Unlock", "chat"),
       Step("Unlock", "profile") >>

\* DenDenClient.cacheProfile after a successful Unmarshal
cacheProfileSteps ==
    << Step("Lock", "profile"), Step("write", "profile"),
       Step("Unlock", "profile") >>

\* DenDenClient.getProfileFromCache; the lookups of GetUserFeed and
\* eventsToEnrichedJson take the same steps
getProfileFromCacheSteps ==
    << Step("RLock", "profile"), Step("read", "profile"),
       Step("RUnlock", "profile") >>

\* DenDenClient.PublishMetadata, step 6
PublishMetadataSteps == cacheProfileSteps

\* DenDenClient.ToggleLike: the lookup, then the delete or the store
ToggleLikeSteps ==
    << Step("RLock", "like"), Step("read", "like"), Step("RUnlock", "like"),
       Step("Lock", "like"), Step("write", "like"), Step("Unlock", "like") >>

\* DenDenClient.ToggleLike when sendLike or sendUnlike fails
ToggleLikeFailedSteps ==
    << Step("RLock", "like"), Step("read", "like"), Step("RUnlock", "like") >>

\* DenDenClient.IsPostLiked
IsPostLikedSteps == ToggleLikeFailedSteps

\* DenDenClient.SendDirectMessage: the append and the len() of the log line
SendDirectMessageSteps ==
    << Step("Lock", "chat"), Step("write", "chat"), Step("read", "chat"),
       Step("Unlock", "chat") >>

\* DenDenClient.DebugFetchMessages: the dedup scan, the append and the sort
DebugFetchMessagesSteps ==
    << Step("Lock", "chat"), Step("read", "chat"), Step("write", "chat"),
       Step("write", "chat"), Step("Unlock", "chat") >>

\* DenDenClient.GetConversationList: getProfileFromCache inside the chat lock
GetConversationListSteps ==
    << Step("RLock", "chat"), Step("read", "chat") >>
        \o getProfileFromCacheSteps \o << Step("RUnlock", "chat") >>

\* DenDenClient.GetChatMessages
GetChatMessagesSteps ==
    << Step("RLock", "chat"), Step("read", "chat"), Step("RUnlock", "chat") >>

Programs ==
    {cacheProfileSteps, getProfileFromCacheSteps, PublishMetadataSteps,
     ToggleLikeSteps, ToggleLikeFailedSteps, IsPostLikedSteps,
     SendDirectMessageSteps, DebugFetchMessagesSteps,
     GetConversationListSteps, GetChatMessagesSteps}

\* the goroutine has done the step at the head of its program
Advance(g) == gprog' = [gprog EXCEPT ![g] = Tail(gprog[g])]

\* a goroutine enters one of the functions that use a cache
CallCacheOp(g) ==
    /\ gprog[g] = <<>>
    /\ gops < MaxOps
    /\ gops' = gops + 1
    /\ \E p \in Programs : gprog' = [gprog EXCEPT ![g] = p]
    /\ UNCHANGED <<wlock, rlock, gacc, wwait>>
    /\ UNCHANGED <<sendVars, cryptoVars, followVars, inboxVars, msgVars, idVars, profVars, powVars, readVars>>

\* sync.RWMutex.Lock, first half: the goroutine gets the writers' mutex and
\* announces itself, after which no new reader gets in
LockCall(g) ==
    /\ gprog[g] # <<>>
    /\ Head(gprog[g]).do = "Lock"
    /\ LET c == Head(gprog[g]).c
       IN /\ wlock[c] = 0
          /\ wwait[c] = 0
          /\ wwait' = [wwait EXCEPT ![c] = g]
    /\ UNCHANGED <<gprog, wlock, rlock, gacc, gops>>
    /\ UNCHANGED <<sendVars, cryptoVars, followVars, inboxVars, msgVars, idVars, profVars, powVars, readVars>>

\* sync.RWMutex.Lock, second half: it waits until the readers have left
LockStep(g) ==
    /\ gprog[g] # <<>>
    /\ Head(gprog[g]).do = "Lock"
    /\ LET c == Head(gprog[g]).c
       IN /\ wwait[c] = g
          /\ rlock[c] = {}
          /\ wlock' = [wlock EXCEPT ![c] = g]
          /\ wwait' = [wwait EXCEPT ![c] = 0]
    /\ Advance(g)
    /\ UNCHANGED <<rlock, gacc, gops>>
    /\ UNCHANGED <<sendVars, cryptoVars, followVars, inboxVars, msgVars, idVars, profVars, powVars, readVars>>

\* sync.RWMutex.RLock: waits while a writer holds the lock or waits for it
RLockStep(g) ==
    /\ gprog[g] # <<>>
    /\ Head(gprog[g]).do = "RLock"
    /\ LET c == Head(gprog[g]).c
       IN /\ wlock[c] = 0
          /\ wwait[c] = 0
          /\ rlock' = [rlock EXCEPT ![c] = @ \cup {g}]
    /\ Advance(g)
    /\ UNCHANGED <<wlock, gacc, gops, wwait>>
    /\ UNCHANGED <<sendVars, cryptoVars, followVars, inboxVars, msgVars, idVars, profVars, powVars, readVars>>

\* sync.RWMutex.Unlock
UnlockStep(g) ==
    /\ gprog[g] # <<>>
    /\ Head(gprog[g]).do = "Unlock"
    /\ wlock' = [wlock EXCEPT ![Head(gprog[g]).c] = 0]
    /\ Advance(g)
    /\ UNCHANGED <<rlock, gacc, gops, wwait>>
    /\ UNCHANGED <<sendVars, cryptoVars, followVars, inboxVars, msgVars, idVars, profVars, powVars, readVars>>

\* sync.RWMutex.RUnlock
RUnlockStep(g) ==
    /\ gprog[g] # <<>>
    /\ Head(gprog[g]).do = "RUnlock"
    /\ rlock' = [rlock EXCEPT ![Head(gprog[g]).c] = @ \ {g}]
    /\ Advance(g)
    /\ UNCHANGED <<wlock, gacc, gops, wwait>>
    /\ UNCHANGED <<sendVars, cryptoVars, followVars, inboxVars, msgVars, idVars, profVars, powVars, readVars>>

\* a read or write of a cache map begins
BeginAccess(g) ==
    /\ gprog[g] # <<>>
    /\ Head(gprog[g]).do \in {"read", "write"}
    /\ gacc[g] = NoAccess
    /\ gacc' = [gacc EXCEPT ![g] = [c |-> Head(gprog[g]).c,
                                    mode |-> Head(gprog[g]).do]]
    /\ UNCHANGED <<gprog, wlock, rlock, gops, wwait>>
    /\ UNCHANGED <<sendVars, cryptoVars, followVars, inboxVars, msgVars, idVars, profVars, powVars, readVars>>

\* the read or write ends
EndAccess(g) ==
    /\ gacc[g] # NoAccess
    /\ gacc' = [gacc EXCEPT ![g] = NoAccess]
    /\ Advance(g)
    /\ UNCHANGED <<wlock, rlock, gops, wwait>>
    /\ UNCHANGED <<sendVars, cryptoVars, followVars, inboxVars, msgVars, idVars, profVars, powVars, readVars>>

LockNext ==
    \E g \in Goroutines :
        \/ CallCacheOp(g)
        \/ LockCall(g)
        \/ LockStep(g)
        \/ RLockStep(g)
        \/ UnlockStep(g)
        \/ RUnlockStep(g)
        \/ BeginAccess(g)
        \/ EndAccess(g)

SpecLocks == Init /\ [][LockNext]_vars

\* a goroutine that can take its next step takes it; entering a function is
\* up to the caller
SpecLocksFair ==
    /\ SpecLocks
    /\ \A g \in Goroutines :
          /\ WF_vars(LockCall(g))
          /\ WF_vars(LockStep(g))
          /\ WF_vars(RLockStep(g))
          /\ WF_vars(UnlockStep(g))
          /\ WF_vars(RUnlockStep(g))
          /\ WF_vars(BeginAccess(g))
          /\ WF_vars(EndAccess(g))

\* ------------------------------------------------- direct messages, caches
\* nip04.ComputeSharedSecret: the ECDH element of a public and a private key
Nip04SecretOk(pub, sk) == ValidPoint(pub) /\ IsNumeral(sk)

ComputeSharedSecret(pub, sk) == ModExp(Atoi(pub), Atoi(sk))

\* nip04.Encrypt with a fresh initialisation vector
Nip04Encrypt(content, secret, iv) ==
    [t |-> "nip04", key |-> secret, text |-> content, iv |-> iv]

\* nip04.Decrypt returns no error: the payload parses and the key fits
Nip04DecryptOk(c, secret) == c.t = "nip04" /\ c.key = secret

Nip04Decrypt(c, secret) == c.text

ChatMessage(evt, content, isMine) ==
    [ID |-> evt.ID, Sender |-> evt.PubKey, Content |-> content,
     CreatedAt |-> evt.CreatedAt, IsMine |-> isMine]

\* a messaging operation returns
MsgReturns(g, o, arg, err, handed, wrote) ==
    /\ mlog' = Append(mlog, [g |-> g, op |-> o, arg |-> arg, err |-> err,
                             handed |-> handed, accepted |-> err = "",
                             wrote |-> wrote])
    /\ mpc' = [mpc EXCEPT ![g] = "idle"]
    /\ mheld' = [mheld EXCEPT ![g] = NoHeld]

\* the variables of the other groups a messaging step leaves alone
MsgFrame ==
    /\ UNCHANGED <<identity, clock, pc, op, event, nonce, attempts, target,
                   orig, stages, sent, result, calls>>
    /\ UNCHANGED <<listener, callback, subEvents, eventChan, consumer, inlog,
                   inCount, loop, cancelled, subClosed, chanClosed, arrived>>
    /\ UNCHANGED <<cryptoVars, followVars, lockVars, idVars, profVars, powVars, readVars>>

\* DenDenClient.SendDirectMessage up to the return of relay.Publish
SendDirectMessage(g) ==
    /\ mpc[g] = "idle"
    /\ mcount < MaxMsgOps
    /\ mcount' = mcount + 1
    /\ \E receiverPubkey \in Receivers :
          LET sk == identity.PrivateKey
              pk == identity.PublicKey
              evt == SignIgnoringError(
                        [NoEvent EXCEPT
                            !.Kind = 4,
                            !.Content =
                                Nip04Encrypt("hello",
                                    ComputeSharedSecret(receiverPubkey, sk),
                                    mcount + 1),
                            !.CreatedAt = clock,
                            !.Tags = << <<"p", receiverPubkey>> >>,
                            !.PubKey = pk], sk)
          IN IF ~Nip04SecretOk(receiverPubkey, sk)
             THEN /\ MsgReturns(g, "SendDirectMessage", receiverPubkey,
                                "failed to compute shared secret", <<>>, <<>>)
                  /\ dmStore' = dmStore
             ELSE IF ~connected
             THEN /\ MsgReturns(g, "SendDirectMessage", receiverPubkey,
                                "no connected relay", <<>>, <<>>)
                  /\ dmStore' = dmStore
             ELSE \E ok \in BOOLEAN :
                    IF ok /\ CheckSignature(evt)
                    THEN /\ dmStore' = Append(dmStore, evt)
                         /\ mpc' = [mpc EXCEPT ![g] = "published"]
                         /\ mheld' = [mheld EXCEPT ![g] =
                                [op |-> "SendDirectMessage", evt |-> evt,
                                 receiver |-> receiverPubkey]]
                         /\ mlog' = mlog
                    ELSE /\ MsgReturns(g, "SendDirectMessage", receiverPubkey,
                                       "failed to publish", <<evt>>, <<>>)
                         /\ dmStore' = dmStore
    /\ UNCHANGED <<chatCache, likeCache, profileCache, connected>>
    /\ MsgFrame

\* DenDenClient.SendDirectMessage from chatMutex.Lock to its return
SendDirectMessageCache(g) ==
    /\ mpc[g] = "published"
    /\ mheld[g].op = "SendDirectMessage"
    /\ LET msg == ChatMessage(mheld[g].evt, "hello", TRUE)
       IN /\ chatCache' = [chatCache EXCEPT ![mheld[g].receiver] =
                                Append(@, msg)]
          /\ MsgReturns(g, "SendDirectMessage", mheld[g].receiver, "",
                        <<mheld[g].evt>>, <<msg>>)
    /\ UNCHANGED <<likeCache, profileCache, dmStore, mcount, connected>>
    /\ MsgFrame

\* a remote party publishes a direct message for the local identity
RemoteSendsDM ==
    /\ mcount < MaxMsgOps
    /\ mcount' = mcount + 1
    /\ dmStore' = Append(dmStore,
          RemoteEvent(4, << <<"p", identity.PublicKey>> >>,
                      Nip04Encrypt("hello",
                          ComputeSharedSecret(identity.PublicKey, RemoteKey),
                          mcount + 1)))
    /\ UNCHANGED <<chatCache, likeCache, profileCache, mpc, mheld, mlog,
                   connected>>
    /\ MsgFrame

HasPTag(evt, pubkey) ==
    \E i \in 1..Len(evt.Tags) :
        Len(evt.Tags[i]) >= 2 /\ evt.Tags[i][1] = "p" /\ evt.Tags[i][2] = pubkey

\* DebugFetchMessages: the partner of an event, "" for none
RECURSIVE FirstP(_)
FirstP(tags) ==
    IF tags = <<>> THEN ""
    ELSE IF Len(Head(tags)) >= 2 /\ Head(tags)[1] = "p" THEN Head(tags)[2]
    ELSE FirstP(Tail(tags))

PartnerOf(evt, pk) == IF evt.PubKey = pk THEN FirstP(evt.Tags) ELSE evt.PubKey

\* DebugFetchMessages: the loop over allEvents, on the cache at the time
RECURSIVE MergeEvents(_, _, _, _)
MergeEvents(cache, events, pk, sk) ==
    IF events = <<>> THEN cache
    ELSE LET evt == Head(events)
             partner == PartnerOf(evt, pk)
             usable ==
                 /\ partner # ""
                 /\ partner \in DOMAIN cache
                 /\ Nip04SecretOk(partner, sk)
                 /\ Nip04DecryptOk(evt.Content,
                                   ComputeSharedSecret(partner, sk))
             exists ==
                 \E i \in 1..Len(cache[partner]) : cache[partner][i].ID = evt.ID
             msg == ChatMessage(evt,
                                Nip04Decrypt(evt.Content,
                                    ComputeSharedSecret(partner, sk)),
                                evt.PubKey = pk)
         IN IF usable /\ ~exists
            THEN MergeEvents([cache EXCEPT ![partner] = Append(@, msg)],
                             Tail(events), pk, sk)
            ELSE MergeEvents(cache, Tail(events), pk, sk)

\* sort.Slice by CreatedAt: every order of the messages that is sorted
Sorts(msgs) ==
    {[i \in 1..Len(msgs) |-> msgs[p[i]]] : p \in
        {q \in Orders(msgs) :
            \A i, j \in 1..Len(msgs) :
                i < j => msgs[q[i]].CreatedAt <= msgs[q[j]].CreatedAt}}

\* DenDenClient.DebugFetchMessages up to the merge of the two query results
DebugFetchMessages(g) ==
    /\ mpc[g] = "idle"
    /\ mcount < MaxMsgOps
    /\ mcount' = mcount + 1
    /\ \E reach \in BOOLEAN, okReceived \in BOOLEAN, okSent \in BOOLEAN :
          LET pk == identity.PublicKey
              Received(e) == e.Kind = 4 /\ HasPTag(e, pk)
              Sent(e) == e.Kind = 4 /\ e.PubKey = pk
              eventsReceived == IF okReceived THEN SelectSeq(dmStore, Received)
                                ELSE <<>>
              eventsSent == IF okSent THEN SelectSeq(dmStore, Sent) ELSE <<>>
          IN IF ~connected /\ ~reach
             THEN /\ MsgReturns(g, "DebugFetchMessages", "",
                                "no connected relay and auto-connect failed",
                                <<>>, <<>>)
                  /\ connected' = connected
             ELSE /\ connected' = TRUE
                  /\ mpc' = [mpc EXCEPT ![g] = "queried"]
                  /\ mheld' = [mheld EXCEPT ![g] =
                         [op |-> "DebugFetchMessages",
                          allEvents |-> eventsReceived \o eventsSent]]
                  /\ mlog' = mlog
    /\ UNCHANGED <<chatCache, likeCache, profileCache, dmStore>>
    /\ MsgFrame

\* DenDenClient.DebugFetchMessages from chatMutex.Lock to its return
DebugFetchMessagesMerge(g) ==
    /\ mpc[g] = "queried"
    /\ mheld[g].op = "DebugFetchMessages"
    /\ LET merged == MergeEvents(chatCache, mheld[g].allEvents,
                                 identity.PublicKey, identity.PrivateKey)
       IN /\ chatCache' \in {c \in [DOMAIN chatCache ->
                                        UNION {Sorts(merged[r]) :
                                                  r \in DOMAIN merged}] :
                                \A r \in DOMAIN merged : c[r] \in Sorts(merged[r])}
          /\ MsgReturns(g, "DebugFetchMessages", "", "", <<>>,
                        mheld[g].allEvents)
    /\ UNCHANGED <<likeCache, profileCache, dmStore, mcount, connected>>
    /\ MsgFrame

\* an event id as the text of a tag value
IdText(id) == Itoa(SumSeq(id) % 64)

\* DenDenClient.ToggleLike up to the return of sendLike or sendUnlike
ToggleLike(g) ==
    /\ mpc[g] = "idle"
    /\ mcount < MaxMsgOps
    /\ mcount' = mcount + 1
    /\ \E postId \in Posts :
          LET isLiked == likeCache[postId] # NoLike
              unsigned ==
                  IF isLiked
                  THEN [NoEvent EXCEPT
                           !.PubKey = identity.PublicKey, !.CreatedAt = clock,
                           !.Kind = 5,
                           !.Tags = << <<"e", IdText(likeCache[postId][1])>> >>,
                           !.Content = Text("unlike")]
                  ELSE [NoEvent EXCEPT
                           !.PubKey = identity.PublicKey, !.CreatedAt = clock,
                           !.Kind = 7,
                           !.Tags = << <<"e", postId>> >>,
                           !.Content = Text("+")]
              ev == Sign(unsigned, identity.PrivateKey)
          IN IF ~connected
             THEN MsgReturns(g, "ToggleLike", postId,
                             "not connected to relay", <<>>, <<>>)
             ELSE IF ~SignOk(identity.PrivateKey)
             THEN MsgReturns(g, "ToggleLike", postId,
                             "failed to sign event", <<>>, <<>>)
             ELSE \E ok \in BOOLEAN :
                    IF ok
                    THEN /\ mpc' = [mpc EXCEPT ![g] = "sent"]
                         /\ mheld' = [mheld EXCEPT ![g] =
                                [op |-> "ToggleLike", postId |-> postId,
                                 ev |-> ev, unlike |-> isLiked]]
                         /\ mlog' = mlog
                    ELSE MsgReturns(g, "ToggleLike", postId,
                                    "failed to publish", <<ev>>, <<>>)
    /\ UNCHANGED <<chatCache, likeCache, profileCache, dmStore, connected>>
    /\ MsgFrame

\* DenDenClient.IsPostLiked
IsPostLiked(postId) == likeCache[postId] # NoLike

\* the cache step when the unlike branch stores the deletion's id
ToggleLikeCacheNeverRemoves(g) ==
    /\ mpc[g] = "sent"
    /\ mheld[g].op = "ToggleLike"
    /\ LET entry == <<mheld[g].ev.ID>>
       IN /\ likeCache' = [likeCache EXCEPT ![mheld[g].postId] = entry]
          /\ MsgReturns(g, "ToggleLike", mheld[g].postId, "",
                        <<mheld[g].ev>>, <<entry>>)
    /\ UNCHANGED <<chatCache, profileCache, dmStore, mcount, connected>>
    /\ MsgFrame

\* the cache step when a like does not replace an id already recorded
ToggleLikeCacheKeepsRecorded(g) ==
    /\ mpc[g] = "sent"
    /\ mheld[g].op = "ToggleLike"
    /\ LET entry == IF mheld[g].unlike THEN NoLike
                    ELSE IF likeCache[mheld[g].postId] # NoLike
                         THEN likeCache[mheld[g].postId]
                         ELSE <<mheld[g].ev.ID>>
       IN /\ likeCache' = [likeCache EXCEPT ![mheld[g].postId] = entry]
          /\ MsgReturns(g, "ToggleLike", mheld[g].postId, "",
                        <<mheld[g].ev>>, <<entry>>)
    /\ UNCHANGED <<chatCache, profileCache, dmStore, mcount, connected>>
    /\ MsgFrame

\* DenDenClient.ToggleLike: "Remove from cache" or "Store in cache", return
ToggleLikeCache(g) ==
    /\ mpc[g] = "sent"
    /\ mheld[g].op = "ToggleLike"
    /\ LET entry == IF mheld[g].unlike THEN NoLike ELSE <<mheld[g].ev.ID>>
       IN /\ likeCache' = [likeCache EXCEPT ![mheld[g].postId] = entry]
          /\ MsgReturns(g, "ToggleLike", mheld[g].postId, "",
                        <<mheld[g].ev>>, <<entry>>)
    /\ UNCHANGED <<chatCache, profileCache, dmStore, mcount, connected>>
    /\ MsgFrame

\* the cache when an entry already present is kept
UpsertProfileKeepsFirst(cache, pubkey, profile) ==
    IF \E i \in 1..Len(cache) : cache[i].pubkey = pubkey THEN cache
    ELSE Append(cache, [pubkey |-> pubkey, profile |-> profile])

\* the profile cache with the entry of a public key set to a profile
UpsertProfile(cache, pubkey, profile) ==
    LET Other(e) == e.pubkey # pubkey
    IN Append(SelectSeq(cache, Other), [pubkey |-> pubkey, profile |-> profile])

MetadataCacheOptimistic(ok, cache, pubkey, profile) ==
    UpsertProfile(cache, pubkey, profile)

\* DenDenClient.PublishMetadata, steps 5 and 6: the cache when it returns
MetadataCache(ok, cache, pubkey, profile) ==
    IF ok THEN UpsertProfile(cache, pubkey, profile) ELSE cache

\* DenDenClient.PublishMetadata
PublishMetadata(g) ==
    /\ mpc[g] = "idle"
    /\ mcount < MaxMsgOps
    /\ mcount' = mcount + 1
    /\ \E metadataJson \in {[t |-> "profile", name |-> "bob",
                             picture |-> "wss://relay"], Text("zz")} :
          LET ev == Sign([NoEvent EXCEPT
                             !.PubKey = identity.PublicKey,
                             !.CreatedAt = clock, !.Kind = 0,
                             !.Content = metadataJson], identity.PrivateKey)
              Handled(done) ==
                  plog' = Append(plog, [via |-> "PublishMetadata",
                                        pubkey |-> identity.PublicKey,
                                        content |-> metadataJson,
                                        createdAt |-> clock, done |-> done])
          IN IF ~connected
             THEN /\ MsgReturns(g, "PublishMetadata", metadataJson,
                                "not connected to relay", <<>>, <<>>)
                  /\ profileCache' = profileCache
                  /\ Handled(FALSE)
             ELSE IF metadataJson.t # "profile"
             THEN /\ MsgReturns(g, "PublishMetadata", metadataJson,
                                "failed to parse metadata JSON", <<>>, <<>>)
                  /\ profileCache' = profileCache
                  /\ Handled(FALSE)
             ELSE IF ~SignOk(identity.PrivateKey)
             THEN /\ MsgReturns(g, "PublishMetadata", metadataJson,
                                "failed to sign event", <<>>, <<>>)
                  /\ profileCache' = profileCache
                  /\ Handled(FALSE)
             ELSE \E ok \in BOOLEAN :
                    /\ profileCache' =
                          MetadataCache(ok, profileCache, identity.PublicKey,
                                        [name |-> metadataJson.name,
                                         picture |-> metadataJson.picture])
                    /\ MsgReturns(g, "PublishMetadata", metadataJson,
                                  IF ok THEN ""
                                  ELSE "failed to publish metadata",
                                  <<ev>>,
                                  IF ok THEN <<metadataJson>> ELSE <<>>)
                    /\ Handled(ok)
    /\ pcount' = pcount
    /\ got' = got
    /\ UNCHANGED <<chatCache, likeCache, dmStore, connected>>
    /\ UNCHANGED <<identity, clock, pc, op, event, nonce, attempts, target,
                   orig, stages, sent, result, calls>>
    /\ UNCHANGED <<listener, callback, subEvents, eventChan, consumer, inlog,
                   inCount, loop, cancelled, subClosed, chanClosed, arrived>>
    /\ UNCHANGED <<cryptoVars, followVars, lockVars, idVars, powVars, readVars>>

MsgNext ==
    \/ Tick
    \/ Connect
    \/ RemoteSendsDM
    \/ \E g \in Goroutines : SendDirectMessage(g)
    \/ \E g \in Goroutines : SendDirectMessageCache(g)
    \/ \E g \in Goroutines : DebugFetchMessages(g)
    \/ \E g \in Goroutines : DebugFetchMessagesMerge(g)
    \/ \E g \in Goroutines : ToggleLike(g)
    \/ \E g \in Goroutines : ToggleLikeCache(g)
    \/ \E g \in Goroutines : PublishMetadata(g)

SpecMsg == Init /\ [][MsgNext]_vars

\* ------------------------------------------------------- difficulty check
\* the texts CheckDifficulty is called with: up to MaxHexLen characters, each
\* a hex digit (0, 1, 3, 8, f) or, written 16, a character that is none
HexTexts == UNION {[1..n -> {0, 1, 3, 8, 15, 16}] : n \in 0..MaxHexLen}

Difficulties == 0..(MaxDifficulty + 4 * MaxHexLen)

\* pow.CheckDifficulty(eventID, difficulty), called on any text
CheckDifficultyCall ==
    /\ ~checked.called
    /\ \E eventID \in HexTexts, difficulty \in Difficulties :
          checked' = [called |-> TRUE, id |-> eventID,
                      difficulty |-> difficulty,
                      result |-> CheckDifficulty(eventID, difficulty),
                      zeros |-> IF HexValid(eventID)
                                THEN countLeadingZeroBits(HexDecode(eventID))
                                ELSE 0]
    /\ UNCHANGED <<sendVars, cryptoVars, followVars, inboxVars, lockVars,
                   msgVars, idVars, profVars, readVars>>

PowNext == CheckDifficultyCall

SpecPow == Init /\ [][PowNext]_vars

\* ----------------------------------------------------------- profile cache
\* a kind-0 event signed by key k and dated t
MetadataEvent(k, t, c) ==
    [Sign([NoEvent EXCEPT !.Kind = 0, !.Content = c], k)
        EXCEPT !.CreatedAt = t]

\* the kind-0 events a relay can deliver: two of the remote party, the older
\* with another profile than the newer, and two carrying the local key, one
\* of which does not parse as a profile while the other is a profile that
\* sets neither name nor picture
MetadataEvents ==
    {MetadataEvent(RemoteKey, 2, [t |-> "profile", name |-> "bob",
                                  picture |-> "wss://relay"]),
     MetadataEvent(RemoteKey, 1, [t |-> "profile", name |-> "",
                                  picture |-> "bob"]),
     MetadataEvent("2", 2, [t |-> "profile", name |-> "", picture |-> ""]),
     MetadataEvent("2", 1, Text("zz"))}

\* DenDenClient.processEvent, case 0, for an event the listening loop took
\* from the subscription
ProcessMetadata ==
    /\ listener = "mobile"
    /\ loop = "running"
    /\ pcount < MaxWrites
    /\ pcount' = pcount + 1
    /\ \E ev \in MetadataEvents :
         /\ profileCache' = cacheProfile(ev.PubKey, ev.Content)
         /\ plog' = Append(plog, [via |-> "processEvent",
                                  pubkey |-> ev.PubKey,
                                  content |-> ev.Content,
                                  createdAt |-> ev.CreatedAt, done |-> TRUE])
    /\ UNCHANGED <<listener, callback, subEvents, eventChan, consumer, inlog,
                   inCount, loop, cancelled, subClosed, chanClosed, arrived>>
    /\ UNCHANGED <<sendVars, cryptoVars, followVars, lockVars, msgVars, idVars, powVars, readVars, got>>

\* DenDenClient.FetchProfile(pubkey): the goroutine it starts, from the
\* subscription to sub.Unsub; the relay answers with an event of the author
\* or with none
FetchProfile ==
    /\ connected
    /\ pcount < MaxWrites
    /\ pcount' = pcount + 1
    /\ \E pubkey \in {GetPublicKey(RemoteKey), GetPublicKey("2")} :
         \/ \E ev \in MetadataEvents :
              /\ ev.PubKey = pubkey
              /\ profileCache' = cacheProfile(ev.PubKey, ev.Content)
              /\ plog' = Append(plog, [via |-> "FetchProfile",
                                       pubkey |-> ev.PubKey,
                                       content |-> ev.Content,
                                       createdAt |-> ev.CreatedAt,
                                       done |-> TRUE])
              /\ consumer' = IF callback
                             THEN Append(consumer,
                                     [kind |-> 0, pubkey |-> ev.PubKey,
                                      content |-> [escaped |-> ev.Content]])
                             ELSE consumer
         \/ UNCHANGED <<profileCache, plog, consumer>>
    /\ UNCHANGED <<listener, callback, subEvents, eventChan, inlog,
                   inCount, loop, cancelled, subClosed, chanClosed, arrived>>
    /\ UNCHANGED <<sendVars, cryptoVars, followVars, lockVars, msgVars, idVars, powVars, readVars, got>>

ProfileNext ==
    \/ Connect
    \/ MobileStartListening
    \/ ProcessMetadata
    \/ FetchProfile
    \/ PublishMetadata(1)

SpecProfile == Init /\ [][ProfileNext]_vars

\* DenDenClient.GetProfile: the JSON object it returns, by its members
GetProfile(pubkey) ==
    LET profile == getProfileFromCache(pubkey)
    IN IF profile.name = "" /\ profile.picture = ""
       THEN [pubkey |-> pubkey, cached |-> FALSE]
       ELSE [pubkey |-> pubkey, cached |-> TRUE,
             name |-> [escaped |-> profile.name],
             picture |-> [escaped |-> profile.picture]]

\* the frontend asks for a profile (DenDenBridge.getProfile); the session
\* does so once, for a key that may or may not be in the cache
GetProfileCall ==
    /\ ~got.called
    /\ \E pubkey \in {GetPublicKey(RemoteKey), GetPublicKey("2"),
                      GetPublicKey(OtherRemoteKey)} :
          got' = [called |-> TRUE, pubkey |-> pubkey,
                  entry |-> LET Of(e) == e.pubkey = pubkey
                            IN SelectSeq(profileCache, Of),
                  result |-> GetProfile(pubkey)]
    /\ UNCHANGED <<plog, pcount>>
    /\ UNCHANGED <<sendVars, cryptoVars, followVars, inboxVars, lockVars, msgVars, idVars, powVars, readVars>>

GetProfileNext == ProfileNext \/ GetProfileCall

SpecGetProfile == Init /\ [][GetProfileNext]_vars

\* ------------------------------------------------------ conversation list
\* a partner the local user also writes to publishes a direct message for
\* the local identity; its created-at is the partner's clock
PartnerSendsDM ==
    /\ Len(dmStore) < MaxMsgOps
    /\ \E t \in 0..MaxClock :
          dmStore' = Append(dmStore,
              Sign([NoEvent EXCEPT
                       !.Kind = 4, !.CreatedAt = t,
                       !.Tags = << <<"p", identity.PublicKey>> >>,
                       !.Content =
                           Nip04Encrypt("hello",
                               ComputeSharedSecret(identity.PublicKey,
                                                   OtherRemoteKey),
                               Len(dmStore) + 1)],
                   OtherRemoteKey))
    /\ UNCHANGED <<chatCache, likeCache, profileCache, mpc, mheld, mlog,
                   mcount, connected>>
    /\ MsgFrame

\* GetConversationList: the entry of a partner with cached messages
Conversation(cache, partner) ==
    LET msgs == cache[partner]
        last == msgs[Len(msgs)]
        profile == getProfileFromCache(partner)
    IN [PartnerPubkey |-> partner, PartnerName |-> profile.name,
        PartnerAvatar |-> profile.picture, LastMessage |-> last.Content,
        Timestamp |-> last.CreatedAt, UnreadCount |-> 0]

\* GetConversationList: the lists it can return for a chat cache: the
\* partners come in the order of the map iteration and sort.Slice puts them
\* in some order of descending Timestamp
GetConversationList(cache) ==
    LET partners == {p \in DOMAIN cache : Len(cache[p]) # 0}
        n == Cardinality(partners)
    IN {list \in [1..n -> {Conversation(cache, p) : p \in partners}] :
           /\ \A p \in partners : \E i \in 1..n : list[i].PartnerPubkey = p
           /\ \A i, j \in 1..n :
                 i < j => list[i].Timestamp >= list[j].Timestamp}

\* DenDenClient.GetConversationList, from chatMutex.RLock to its return; the
\* session calls it once. The FetchProfile it starts for a partner without
\* profile runs as a goroutine of its own.
GetConversationListCall ==
    /\ ~convs.called
    /\ \E list \in GetConversationList(chatCache) :
          convs' = [called |-> TRUE, cache |-> chatCache, list |-> list]
    /\ UNCHANGED <<media, delivery>>
    /\ UNCHANGED msgVars
    /\ UNCHANGED <<sendVars, cryptoVars, followVars, inboxVars, lockVars,
                   idVars, profVars, powVars>>

ConversationsNext ==
    \/ Tick
    \/ Connect
    \/ RemoteSendsDM
    \/ PartnerSendsDM
    \/ \E g \in Goroutines : SendDirectMessage(g)
    \/ \E g \in Goroutines : SendDirectMessageCache(g)
    \/ \E g \in Goroutines : DebugFetchMessages(g)
    \/ \E g \in Goroutines : DebugFetchMessagesMerge(g)
    \/ GetConversationListCall

SpecConversations == Init /\ [][ConversationsNext]_vars

\* ------------------------------------------- direct messages, both clients
SendPaths == {"SendEncryptedMessage", "SendDirectMessage"}

\* message texts, each as the string handed to nip04 and as the bytes handed
\* to nip44
Messages ==
    {[s |-> "", bytes |-> <<>>], [s |-> "hello", bytes |-> <<1>>],
     [s |-> "bob", bytes |-> <<2, 1>>]}

\* the content a send path puts into its kind-4 event: crypto.Encrypt in
\* Client.SendEncryptedMessage, nip04.Encrypt in DenDenClient.SendDirectMessage
PathCiphertext(path, content, senderKey, recipientPubKey, iv) ==
    IF path = "SendEncryptedMessage"
    THEN LET e == Encrypt(content.bytes, senderKey, recipientPubKey, iv)
         IN [ok |-> e.err = "", content |-> e.ciphertext]
    ELSE [ok |-> Nip04SecretOk(recipientPubKey, senderKey),
          content |-> Nip04Encrypt(content.s,
                          ComputeSharedSecret(recipientPubKey, senderKey),
                          iv)]

\* a client with the sender's key sends a direct message to the local
\* identity through one of the two send paths, and the local client handles
\* the event in its inbox (processEvent) and in DebugFetchMessages
DeliverDM ==
    /\ ~delivery.called
    /\ \E path \in SendPaths, senderKey \in {RemoteKey, OtherRemoteKey},
          content \in Messages, iv \in Nonces :
          LET c == PathCiphertext(path, content, senderKey,
                                  identity.PublicKey, iv)
              ev == Sign([NoEvent EXCEPT
                             !.Kind = 4, !.CreatedAt = clock,
                             !.Tags = << <<"p", identity.PublicKey>> >>,
                             !.Content = c.content], senderKey)
              merged == MergeEvents([r \in DOMAIN chatCache |-> <<>>], <<ev>>,
                                    identity.PublicKey, identity.PrivateKey)
          IN delivery' =
                IF ~c.ok
                THEN [called |-> TRUE, sent |-> FALSE, path |-> path,
                      content |-> content]
                ELSE [called |-> TRUE, sent |-> TRUE, path |-> path,
                      content |-> content, event |-> ev,
                      inbox |-> MobileNotes(ev),
                      fetched |-> merged[ev.PubKey]]
    /\ UNCHANGED <<media, convs>>
    /\ UNCHANGED <<sendVars, cryptoVars, followVars, inboxVars, lockVars,
                   msgVars, idVars, profVars, powVars>>

DeliveryNext == Tick \/ DeliverDM

SpecDelivery == Init /\ [][DeliveryNext]_vars

\* ------------------------------------------------------------ media filter
\* the characters notes are written with
Chars == {".", "p", "n", "g"}

\* hasMedia: exts
exts ==
    << <<".", "j", "p", "g">>, <<".", "j", "p", "e", "g">>,
       <<".", "p", "n", "g">>, <<".", "g", "i", "f">>,
       <<".", "m", "p", "4">>, <<".", "m", "o", "v">>,
       <<".", "w", "e", "b", "p">> >>

\* content[i:j], i and j counted from 0 as in the source
Slice(content, i, j) == SubSeq(content, i + 1, j)

\* DenDenClient.hasMedia: i runs from 0 while i < len(content)-len(ext)
hasMedia(content) ==
    \E e \in 1..Len(exts) :
        \E i \in 0..(Len(content) - Len(exts[e]) - 1) :
            Slice(content, i, i + Len(exts[e])) = exts[e]

Contents == UNION {[1..n -> Chars] : n \in 0..MaxContentLen}

\* notes with the extension at the start, at the end, as the whole text, and
\* without it
MediaSamples ==
    {<<".", "p", "n", "g", "p">>, <<"p", ".", "p", "n", "g">>,
     <<".", "p", "n", "g">>, <<"p", "n", "g">>}

Note(content) == [Kind |-> 1, Content |-> content]

\* what fetchUserEvents can return: no event, one note of any content, or
\* several of the sample notes
Fetched ==
    {<<>>} \cup {<<Note(c)>> : c \in Contents}
        \cup UNION {[1..n -> {Note(c) : c \in MediaSamples}] :
                       n \in 2..MaxFetched}

\* GetUserMedia: the loop over the events and the cut to limit
FilterMedia(events, limit) ==
    LET Has(evt) == hasMedia(evt.Content)
        filtered == SelectSeq(events, Has)
    IN IF Len(filtered) > limit THEN SubSeq(filtered, 1, limit) ELSE filtered

\* DenDenClient.GetUserMedia, from its call to its return; the session calls
\* it once
GetUserMedia ==
    /\ ~media.called
    /\ \E limit \in 0..MaxLimit :
          IF ~connected
          THEN media' = [called |-> TRUE, limit |-> limit, events |-> <<>>,
                         err |-> "not connected to relay", result |-> <<>>]
          ELSE \/ media' = [called |-> TRUE, limit |-> limit, events |-> <<>>,
                            err |-> "query failed", result |-> <<>>]
               \/ \E events \in Fetched :
                     media' = [called |-> TRUE, limit |-> limit,
                               events |-> events, err |-> "",
                               result |-> FilterMedia(events, limit)]
    /\ UNCHANGED <<convs, delivery>>
    /\ UNCHANGED <<sendVars, cryptoVars, followVars, inboxVars, lockVars,
                   msgVars, idVars, profVars, powVars>>

MediaNext == Connect \/ GetUserMedia

SpecMedia == Init /\ [][MediaNext]_vars

\* --------------------------------------------------------- identity store
\* nip19.EncodePrivateKey and nip19.EncodePublicKey: the prefixed encodings
EncodePrivateKey(sk) == "nsec1" \o sk

EncodePublicKey(pk) == "npub1" \o pk

\* identity.GenerateKeyPair for the private key sk that
\* nostr.GeneratePrivateKey drew
GenerateKeyPair(sk) ==
    [PrivateKey |-> sk, PublicKey |-> GetPublicKey(sk),
     Nsec |-> EncodePrivateKey(sk),
     Npub |-> EncodePublicKey(GetPublicKey(sk))]

\* json.MarshalIndent of an Identity: the members under their json names
MarshalIndent(id) ==
    << <<"private_key", id.PrivateKey>>, <<"public_key", id.PublicKey>>,
       <<"nsec", id.Nsec>>, <<"npub", id.Npub>> >>

\* the value of member name in a decoded object, "" when it is missing
Member(data, name) ==
    IF \E i \in 1..Len(data) : data[i][1] = name
    THEN data[CHOOSE i \in 1..Len(data) :
                /\ data[i][1] = name
                /\ \A j \in (i + 1)..Len(data) : data[j][1] # name][2]
    ELSE ""

\* json.Unmarshal into an Identity
Unmarshal(data) ==
    [PrivateKey |-> Member(data, "private_key"),
     PublicKey |-> Member(data, "public_key"),
     Nsec |-> Member(data, "nsec"), Npub |-> Member(data, "npub")]

\* what os.WriteFile can do: write everything, fail before the file is
\* created, or fail after creating it and writing part of the data
WriteOutcomes == {"written", "not created", "short write"}

\* identity.SaveIdentity: the file afterwards and the error
SaveIdentity(id, file, outcome) ==
    LET data == MarshalIndent(id)
    IN CASE outcome = "written" ->
              [file |-> [exists |-> TRUE, data |-> data, whole |-> TRUE,
                         readable |-> TRUE],
               err |-> ""]
         [] outcome = "short write" ->
              [file |-> [exists |-> TRUE, data |-> SubSeq(data, 1, 2),
                         whole |-> FALSE, readable |-> TRUE],
               err |-> "failed to write identity file"]
         [] OTHER ->
              [file |-> file, err |-> "failed to write identity file"]

\* the answer of LoadIdentity that makes EnsureIdentity generate a new key
LoadIdentityNeverFinds(file) ==
    [identity |-> NilIdentity, err |-> "identity file does not exist"]

\* identity.LoadIdentity
LoadIdentity(file) ==
    IF ~file.exists
    THEN [identity |-> NilIdentity, err |-> "identity file does not exist"]
    ELSE IF ~file.readable
    THEN [identity |-> NilIdentity, err |-> "failed to read identity file"]
    ELSE IF ~file.whole
    THEN [identity |-> NilIdentity, err |-> "failed to parse identity file"]
    ELSE [identity |-> Unmarshal(file.data), err |-> ""]

\* EnsureIdentity generating and saving after any failure of LoadIdentity
EnsureIdentityOnAnyError ==
    /\ idcount < MaxRuns
    /\ idcount' = idcount + 1
    /\ \E filePath \in Paths, sk \in PrivKeys, outcome \in WriteOutcomes :
         LET before == idFiles[filePath]
             loaded == LoadIdentity(before)
             generated == GenerateKeyPair(sk)
             saved == SaveIdentity(generated, before, outcome)
             entry == [path |-> filePath, before |-> before]
         IN IF loaded.err = ""
            THEN /\ idlog' = Append(idlog,
                        entry @@ [identity |-> loaded.identity,
                                  wasCreated |-> FALSE, err |-> "",
                                  after |-> before])
                 /\ idFiles' = idFiles
            ELSE /\ idFiles' = [idFiles EXCEPT ![filePath] = saved.file]
                 /\ idlog' = Append(idlog,
                        IF saved.err # ""
                        THEN entry @@ [identity |-> NilIdentity,
                                       wasCreated |-> FALSE,
                                       err |-> "failed to save identity",
                                       after |-> saved.file]
                        ELSE entry @@ [identity |-> generated,
                                       wasCreated |-> TRUE, err |-> "",
                                       after |-> saved.file])
    /\ UNCHANGED <<sendVars, cryptoVars, followVars, inboxVars, lockVars,
                   msgVars, profVars, powVars, readVars>>

\* identity.EnsureIdentity; NewClient calls it once when the program starts
EnsureIdentity ==
    /\ idcount < MaxRuns
    /\ idcount' = idcount + 1
    /\ \E filePath \in Paths, sk \in PrivKeys, outcome \in WriteOutcomes :
         LET before == idFiles[filePath]
             loaded == LoadIdentity(before)
             generated == GenerateKeyPair(sk)
             saved == SaveIdentity(generated, before, outcome)
             entry == [path |-> filePath, before |-> before]
         IN IF loaded.err = ""
            THEN /\ idlog' = Append(idlog,
                        entry @@ [identity |-> loaded.identity,
                                  wasCreated |-> FALSE, err |-> "",
                                  after |-> before])
                 /\ idFiles' = idFiles
            ELSE IF loaded.err # "identity file does not exist"
            THEN /\ idlog' = Append(idlog,
                        entry @@ [identity |-> NilIdentity,
                                  wasCreated |-> FALSE,
                                  err |-> "failed to load identity",
                                  after |-> before])
                 /\ idFiles' = idFiles
            ELSE /\ idFiles' = [idFiles EXCEPT ![filePath] = saved.file]
                 /\ idlog' = Append(idlog,
                        IF saved.err # ""
                        THEN entry @@ [identity |-> NilIdentity,
                                       wasCreated |-> FALSE,
                                       err |-> "failed to save identity",
                                       after |-> saved.file]
                        ELSE entry @@ [identity |-> generated,
                                       wasCreated |-> TRUE, err |-> "",
                                       after |-> saved.file])
    /\ UNCHANGED <<sendVars, cryptoVars, followVars, inboxVars, lockVars,
                   msgVars, profVars, powVars, readVars>>

IdNext == EnsureIdentity

SpecIdentity == Init /\ [][IdNext]_vars

\* the environment takes away the permission to read an identity file, after
\* which os.ReadFile fails on it
RevokeRead ==
    /\ \E filePath \in Paths :
          /\ idFiles[filePath].exists
          /\ idFiles[filePath].readable
          /\ idFiles' = [idFiles EXCEPT ![filePath].readable = FALSE]
    /\ UNCHANGED <<idlog, idcount>>
    /\ UNCHANGED <<sendVars, cryptoVars, followVars, inboxVars, lockVars,
                   msgVars, profVars, powVars, readVars>>

IdFilesNext == EnsureIdentity \/ RevokeRead

SpecIdentityFiles == Init /\ [][IdFilesNext]_vars

\* ----------------------------------------------------------------- claims
IsNonceTag(t) == Len(t) > 0 /\ t[1] = "nonce"

IsOtherTag(t) == ~IsNonceTag(t)

\* leading zero bits of an id, read off its hex digits
RECURSIVE ZeroBitsOfHex(_)
ZeroBitsOfHex(id) ==
    IF id = <<>> THEN 0
    ELSE IF Head(id) = 0 THEN 4 + ZeroBitsOfHex(Tail(id))
    ELSE IF Head(id) >= 8 THEN 0
    ELSE IF Head(id) >= 4 THEN 1
    ELSE IF Head(id) >= 2 THEN 2
    ELSE 3

MiningOps == {"SendEncryptedMessage", "Repost", "QuotePost"}

\* C1: when MineEvent has returned, the id of the event has at least
\* targetDifficulty leading zero bits, whatever the number of attempts.
C1_MinedIdMeetsDifficulty ==
    pc = "mined" =>
        /\ HexValid(event.ID)
        /\ Len(event.ID) = 2 * HashBytes
        /\ ZeroBitsOfHex(event.ID) >= target

C1_Witness ==
    pc = "mined" /\ op = "MineEvent" /\ target >= 4 /\ attempts >= 3

\* C2: while and after MineEvent runs, the tags not named "nonce" are the ones
\* the event had at the call, in the same order, and PubKey, Kind, Content and
\* Sig are those of the call (the event is not signed by mining).
C2_MiningFrame ==
    pc \in {"mining", "mined"} =>
        /\ SelectSeq(event.Tags, IsOtherTag) = SelectSeq(orig.Tags, IsOtherTag)
        /\ event.PubKey = orig.PubKey
        /\ event.Kind = orig.Kind
        /\ event.Content = orig.Content
        /\ event.Sig = orig.Sig
        /\ event.Sig = NoSig

C2_Witness ==
    /\ pc = "mined"
    /\ attempts >= 2
    /\ Len(SelectSeq(orig.Tags, IsOtherTag)) >= 2
    /\ Len(SelectSeq(orig.Tags, IsNonceTag)) >= 1
    /\ event.Tags # orig.Tags

\* C3: MineEvent never duplicates the nonce tag.  An event that had a nonce
\* tag keeps its tag list length and gets the first such tag overwritten in
\* place; an event that had none gets one appended by the first attempt and
\* keeps length original+1 afterwards.  On return the tag is
\* ["nonce", <returned nonce>, <target difficulty>].
C3_NonceTagNotDuplicated ==
    (pc \in {"mining", "mined"} /\ attempts >= 1) =>
        LET had == Len(SelectSeq(orig.Tags, IsNonceTag))
            now == Len(SelectSeq(event.Tags, IsNonceTag))
            first(tags) == CHOOSE i \in 1..Len(tags) :
                              /\ IsNonceTag(tags[i])
                              /\ \A j \in 1..(i - 1) : ~IsNonceTag(tags[j])
        IN /\ IF had > 0
              THEN /\ Len(event.Tags) = Len(orig.Tags)
                   /\ now = had
                   /\ first(event.Tags) = first(orig.Tags)
              ELSE /\ Len(event.Tags) = Len(orig.Tags) + 1
                   /\ now = 1
                   /\ first(event.Tags) = Len(event.Tags)
           /\ pc = "mined" =>
                 event.Tags[first(event.Tags)]
                     = <<"nonce", Itoa(nonce), Itoa(target)>>

C3_Witness ==
    /\ pc = "mined"
    /\ attempts >= 2
    /\ nonce = attempts - 1
    /\ Len(orig.Tags) = 3
    /\ IsNonceTag(orig.Tags[2])
    /\ event.Tags[2] = <<"nonce", Itoa(nonce), Itoa(target)>>

\* C4: an operation that mines goes through build, mine, sign, publish in this
\* order; an event is handed to the relay only signed, and with the fields,
\* the id and the signature it had when it was signed.
C4_BuildMineSignPublish ==
    /\ op \in MiningOps =>
          \E n \in 0..4 :
              stages = SubSeq(<<"build", "mine", "sign", "publish">>, 1, n)
    /\ pc = "signed" => CheckSignature(event)
    /\ \A i \in 1..Len(sent) :
          /\ CheckSignature(sent[i])
          /\ sent[i] = event

C4_Witness ==
    /\ pc = "done"
    /\ op = "SendEncryptedMessage"
    /\ stages = <<"build", "mine", "sign", "publish">>
    /\ attempts >= 2
    /\ Len(sent) = 1

\* the Decrypt call is made by the recipient the payload was encrypted for,
\* naming the sender that encrypted it
ForRecipient == dec.priv = enc.b /\ dec.pub = GetPublicKey(enc.a)

\* the Decrypt call uses the key pair of the two parties, from either side
SamePair ==
    \/ ForRecipient
    \/ dec.priv = enc.a /\ dec.pub = GetPublicKey(enc.b)

\* C5 (as stated): for every plaintext and any two key pairs, Encrypt
\* succeeds and Decrypt by the recipient returns the plaintext with no error.
C5_RoundTripEveryPlaintext ==
    /\ cpc # "idle" => enc.out.err = ""
    /\ (cpc = "decrypted" /\ ForRecipient /\ dec.env = enc.out.ciphertext) =>
          /\ dec.out.err = ""
          /\ dec.out.plaintext = enc.plain

\* C5 (amended): for every plaintext of 1 to 65535 bytes and any two key
\* pairs, Encrypt succeeds and Decrypt by the recipient returns the plaintext
\* with no error.
C5_RoundTrip ==
    (Len(enc.plain) >= 1 /\ Len(enc.plain) <= 65535) =>
        /\ cpc # "idle" => enc.out.err = ""
        /\ (cpc = "decrypted" /\ ForRecipient
                /\ dec.env = enc.out.ciphertext) =>
              /\ dec.out.err = ""
              /\ dec.out.plaintext = enc.plain

C5_Witness ==
    /\ cpc = "decrypted"
    /\ enc.a # enc.b
    /\ enc.plain = <<2, 1>>
    /\ ForRecipient
    /\ dec.env = enc.out.ciphertext
    /\ dec.out.plaintext = <<2, 1>>

\* C6: Decrypt with keys other than the pair the payload was encrypted for,
\* or of a malformed or tampered payload, returns an error and the empty
\* string, never a partial or an incorrect plaintext.
C6_DecryptFailsClosed ==
    (cpc = "decrypted" /\ (~SamePair \/ dec.env # enc.out.ciphertext
                              \/ enc.out.err # "")) =>
        /\ dec.out.err # ""
        /\ dec.out.plaintext = <<>>

C6_Witness ==
    /\ cpc = "decrypted"
    /\ enc.out.err = ""
    /\ dec.env = enc.out.ciphertext
    /\ dec.priv \in PrivKeys
    /\ ~SamePair
    /\ dec.out.err = "Failed to decrypt"

\* C7: the conversation key derived by the recipient from (privB, pubA)
\* equals the one the sender derived from (privA, pubB).
C7_ConversationKeySymmetric ==
    (cpc = "decrypted" /\ ForRecipient) =>
        /\ dec.out.key = enc.out.key
        /\ dec.out.key >= 0

C7_Witness ==
    /\ cpc = "decrypted"
    /\ ForRecipient
    /\ enc.a # enc.b
    /\ dec.out.key = enc.out.key
    /\ dec.out.key >= 0

\* the events of a store with the greatest created-at
LatestOf(store) ==
    {i \in 1..Len(store) :
        \A j \in 1..Len(store) : store[j].CreatedAt <= store[i].CreatedAt}

HasP(ev, x) == \E i \in 1..Len(ev.Tags) : IsFollowTag(ev.Tags[i], x)

WithoutP(tags, x) ==
    LET Keep(t) == ~IsFollowTag(t, x) IN SelectSeq(tags, Keep)

WasConnected(r) == r.result # "error: not connected to relay"

\* the call r published exactly one kind-3 event with these tags and content
PublishedList(r, tags, content) ==
    /\ Len(r.published) = 1
    /\ r.published[1].Kind = 3
    /\ r.published[1].Tags = tags
    /\ r.published[1].Content = content
    /\ r.accepted => r.result = "ok"

FollowAppends(r) ==
    IF r.store = <<>>
    THEN PublishedList(r, << <<"p", r.arg>> >>, Text(""))
    ELSE (\A i \in LatestOf(r.store) : ~HasP(r.store[i], r.arg)) =>
            \E i \in LatestOf(r.store) :
                PublishedList(r, r.store[i].Tags \o << <<"p", r.arg>> >>,
                              r.store[i].Content)

UnfollowRemoves(r) ==
    (r.store # <<>> /\ \A i \in LatestOf(r.store) : HasP(r.store[i], r.arg)) =>
        \E i \in LatestOf(r.store) :
            PublishedList(r, WithoutP(r.store[i].Tags, r.arg),
                          r.store[i].Content)

\* C8: Follow(X), when the latest contact list L at the relay has no p tag for
\* X, publishes one kind-3 event whose tags are the tags of L in order followed
\* by ["p", X] and whose content is that of L, and returns "ok" when the relay
\* takes it; with no contact list the tags are exactly [["p", X]].
C8_FollowAppendsToLatest ==
    \A k \in 1..Len(flog) :
        (flog[k].op = "Follow" /\ WasConnected(flog[k])) =>
            FollowAppends(flog[k])

\* C8 for the calls whose query the relay answered
FollowAppends_QueryAnswered ==
    \A k \in 1..Len(flog) :
        (flog[k].op = "Follow" /\ WasConnected(flog[k]) /\ flog[k].answer.ok) =>
            FollowAppends(flog[k])

\* C9: Unfollow(X), when the latest contact list has a p tag for X, publishes
\* one kind-3 event with the tags of that list without the p tags for X, the
\* others unchanged and in order; so Follow(X) and then Unfollow(X), starting
\* from no contact list, yield a list with X and then a list without X.
C9_UnfollowRemovesFromLatest ==
    /\ \A k \in 1..Len(flog) :
          (flog[k].op = "Unfollow" /\ WasConnected(flog[k])) =>
              UnfollowRemoves(flog[k])
    /\ (/\ Len(flog) >= 2
        /\ flog[1].op = "Follow" /\ flog[1].store = <<>> /\ flog[1].accepted
        /\ flog[2].op = "Unfollow" /\ flog[2].arg = flog[1].arg
        /\ flog[2].store = flog[1].published) =>
           /\ HasP(flog[1].published[1], flog[1].arg)
           /\ Len(flog[2].published) = 1
           /\ ~HasP(flog[2].published[1], flog[2].arg)

\* C9 for the calls whose query the relay answered
UnfollowRemoves_QueryAnswered ==
    /\ \A k \in 1..Len(flog) :
          (flog[k].op = "Unfollow" /\ WasConnected(flog[k])
              /\ flog[k].answer.ok) => UnfollowRemoves(flog[k])
    /\ (/\ Len(flog) >= 2
        /\ flog[1].op = "Follow" /\ flog[1].store = <<>> /\ flog[1].accepted
        /\ flog[2].op = "Unfollow" /\ flog[2].arg = flog[1].arg
        /\ flog[2].store = flog[1].published /\ flog[2].answer.ok) =>
           /\ HasP(flog[1].published[1], flog[1].arg)
           /\ Len(flog[2].published) = 1
           /\ ~HasP(flog[2].published[1], flog[2].arg)

RECURSIVE JsonUnescape(_)
\* the text a JSON parser reads from an escaped text
JsonUnescape(s) ==
    IF s = <<>> THEN <<>>
    ELSE IF Head(s) = 0 /\ Len(s) >= 2
         THEN <<s[2]>> \o JsonUnescape(Tail(Tail(s)))
         ELSE <<Head(s)>> \o JsonUnescape(Tail(s))

\* C10: for every kind-4 event the dispatch handles, the consumer receives
\* exactly one notification: the decrypted content with its metadata when
\* decryption succeeds, else an error notification that names the sender and
\* has no content; no kind-4 event is dropped silently.
C10_OneNotificationPerDM ==
    \A k \in 1..Len(inlog) :
        (inlog[k].event.Kind = 4 /\ inlog[k].present) =>
            LET ev == inlog[k].event
                d == Decrypt(ev.Content, identity.PrivateKey, ev.PubKey)
                n == inlog[k].notes[1]
            IN /\ Len(inlog[k].notes) = 1
               /\ n.kind = 4
               /\ IF d.err = ""
                  THEN /\ "error" \notin DOMAIN n
                       /\ n.time = ev.CreatedAt
                       /\ IF inlog[k].via = "mobile"
                          THEN /\ JsonUnescape(n.content) = d.plaintext
                               /\ n.sender = ev.PubKey
                               /\ n.eventId = ev.ID
                          ELSE /\ n.content = d.plaintext
                               /\ n.sender = Prefix16(ev.PubKey)
                  ELSE /\ "content" \notin DOMAIN n
                       /\ n.error = "Failed to decrypt message"
                       /\ n.sender = Prefix16(ev.PubKey)

C10_Witness ==
    /\ Len(inlog) = 2
    /\ inlog[1].via = "mobile"
    /\ inlog[1].present
    /\ inlog[1].event.Kind = 4 /\ inlog[2].event.Kind = 4
    /\ Len(consumer) = 2
    /\ "error" \in DOMAIN consumer[1]
    /\ "content" \in DOMAIN consumer[2]
    /\ JsonUnescape(consumer[2].content) = <<1, 2>>

\* the events processEvent has handled, in the order it handled them
Processed == [k \in 1..Len(inlog) |-> inlog[k].event]

\* C11: a decryption failure or an unparseable kind-0 content affects only its
\* own event: no event is lost or reordered, the dispatch loop stops only when
\* the session is cancelled, and unless the session is cancelled every event
\* that arrived is eventually processed.
C11_FailureIsPerEvent ==
    /\ [](/\ Processed \o eventChan \o subEvents = arrived
          /\ loop = "stopped" => cancelled)
    /\ <>[](cancelled \/ Len(inlog) = Len(arrived))

C11_Witness ==
    /\ ~cancelled
    /\ loop = "running"
    /\ Len(inlog) = 2
    /\ Processed = arrived
    /\ inlog[1].via = "cli"
    /\ Len(consumer) = 2
    /\ "error" \in DOMAIN consumer[1]
    /\ "content" \in DOMAIN consumer[2]
    /\ consumer[2].content = <<1, 2>>

\* the profiles a cache holds for a public key
Cached(cache, pubkey) ==
    {cache[i].profile : i \in {j \in 1..Len(cache) : cache[j].pubkey = pubkey}}

\* json.Unmarshal of a content into a Profile succeeds
ProfileParses(content) == content.t = "profile"

\* C12: a kind-0 event whose content parses sets the profile cache entry of
\* its author to the parsed profile and delivers nothing; one whose content
\* does not parse leaves the cache unchanged and delivers nothing.
C12_MetadataIsCachedNotForwarded ==
    \A k \in 1..Len(inlog) :
        (inlog[k].via = "mobile" /\ inlog[k].event.Kind = 0) =>
            LET ev == inlog[k].event
            IN /\ inlog[k].notes = <<>>
               /\ IF ProfileParses(ev.Content)
                  THEN Cached(inlog[k].cacheAfter, ev.PubKey) =
                          {[name |-> ev.Content.name,
                            picture |-> ev.Content.picture]}
                  ELSE inlog[k].cacheAfter = inlog[k].cacheBefore

C12_Witness ==
    /\ callback
    /\ Len(inlog) = 2
    /\ inlog[1].event.Kind = 0 /\ inlog[2].event.Kind = 0
    /\ ProfileParses(inlog[1].event.Content)
    /\ ~ProfileParses(inlog[2].event.Content)
    /\ consumer = <<>>
    /\ Cached(profileCache, GetPublicKey(RemoteKey)) =
          {[name |-> "bob", picture |-> "wss://relay"]}

\* the cached name and avatar of an author, empty when there is no entry
Enrichment(cache, pubkey) ==
    IF Cached(cache, pubkey) = {} THEN NoProfile
    ELSE CHOOSE pr \in Cached(cache, pubkey) : TRUE

\* C13: every inbound kind-1 and kind-6 event is forwarded to the consumer
\* exactly once, with the cached name and avatar of its author when the cache
\* holds an entry for the author and empty values otherwise.
C13_NotesAndRepostsForwarded ==
    \A k \in 1..Len(inlog) :
        (/\ inlog[k].via = "mobile"
         /\ inlog[k].present
         /\ inlog[k].event.Kind \in {1, 6}) =>
            /\ Len(inlog[k].notes) = 1
            /\ inlog[k].notes[1].eventId = inlog[k].event.ID
            /\ inlog[k].notes[1].authorName =
                  Enrichment(inlog[k].cacheBefore, inlog[k].event.PubKey).name
            /\ inlog[k].notes[1].avatarUrl =
                  Enrichment(inlog[k].cacheBefore,
                             inlog[k].event.PubKey).picture

\* C13 for kind-1 events only
NotesForwarded ==
    \A k \in 1..Len(inlog) :
        (/\ inlog[k].via = "mobile"
         /\ inlog[k].present
         /\ inlog[k].event.Kind = 1) =>
            /\ Len(inlog[k].notes) = 1
            /\ inlog[k].notes[1].eventId = inlog[k].event.ID
            /\ inlog[k].notes[1].authorName =
                  Enrichment(inlog[k].cacheBefore, inlog[k].event.PubKey).name
            /\ inlog[k].notes[1].avatarUrl =
                  Enrichment(inlog[k].cacheBefore,
                             inlog[k].event.PubKey).picture

\* C14: once the session is cancelled the dispatch loop terminates, and no
\* event is processed or delivered after the cancellation, also when events
\* are waiting in the delivery channel.
C14_NoDispatchAfterCancel ==
    /\ [](\A k \in 1..Len(inlog) : ~inlog[k].after)
    /\ (cancelled /\ loop = "running") ~> (loop = "stopped")

\* C14, termination only
LoopTerminatesAfterCancel == (cancelled /\ loop = "running") ~> (loop = "stopped")

\* C15: after the session is cancelled the delivery channel is eventually
\* closed and the forwarding goroutine has terminated, also when the dispatch
\* loop has stopped reading and events are still arriving.
C15_ChannelClosedAfterCancel == (cancelled /\ listener # "") ~> chanClosed

\* C16: every read and write of a cache happens while the goroutine holds
\* that cache's lock (a write under the write lock, a read under the read or
\* the write lock), so no two goroutines access the same cache at the same
\* time with one of them writing.
C16_CacheAccessUnderLock ==
    /\ \A g \in Goroutines :
          gacc[g] # NoAccess =>
              \/ wlock[gacc[g].c] = g
              \/ gacc[g].mode = "read" /\ g \in rlock[gacc[g].c]
    /\ \A g, h \in Goroutines :
          (g # h /\ gacc[g] # NoAccess /\ gacc[g].c = gacc[h].c) =>
              (gacc[g].mode = "read" /\ gacc[h].mode = "read")

C16_Witness ==
    /\ gacc[1] = [c |-> "profile", mode |-> "write"]
    /\ gprog[1] = Tail(cacheProfileSteps)
    /\ gprog[2] = getProfileFromCacheSteps
    /\ gacc[2] = NoAccess

\* C17: under any interleaving of SendDirectMessage and DebugFetchMessages no
\* conversation of the chat cache holds two messages with the same event id.
C17_NoDuplicateMessageIds ==
    \A r \in DOMAIN chatCache :
        \A i, j \in 1..Len(chatCache[r]) :
            chatCache[r][i].ID = chatCache[r][j].ID => i = j

\* C18: if signing the event fails, a publishing operation returns an error
\* and hands no event to the relay (here for Follow and Unfollow).
C18_SignFailureAborts ==
    ~SignOk(identity.PrivateKey) =>
        \A k \in 1..Len(flog) :
            /\ flog[k].published = <<>>
            /\ flog[k].result # "ok"

\* C18 for the operations of Spec, which check the error of Sign
SignFailureAborts_Checked ==
    ~SignOk(identity.PrivateKey) => (sent = <<>> /\ result # "ok")

\* the call that returned in this step, if its relay publish failed
PublishFailed(r) ==
    /\ r.op \in {"SendDirectMessage", "ToggleLike", "PublishMetadata"}
    /\ r.handed # <<>>
    /\ ~r.accepted

\* C19: when the relay publish fails the operation returns an error and the
\* caches are as before: SendDirectMessage adds no chat message, ToggleLike
\* neither adds nor removes the like entry, PublishMetadata does not update
\* the profile cache.
C19_PublishFailureLeavesCaches ==
    [][(Len(mlog') = Len(mlog) + 1 /\ PublishFailed(mlog'[Len(mlog')])) =>
          /\ mlog'[Len(mlog')].err # ""
          /\ mlog'[Len(mlog')].wrote = <<>>
          /\ UNCHANGED <<chatCache, likeCache, profileCache>>]_vars

C19_Witness ==
    /\ Len(mlog) = 2
    /\ mlog[1].op = "ToggleLike" /\ mlog[1].accepted
    /\ mlog[2].op = "ToggleLike" /\ PublishFailed(mlog[2])
    /\ mlog[2].handed[1].Kind = 5
    /\ likeCache["7"] = mlog[1].wrote[1]
    /\ likeCache["7"] # NoLike

\* C20: when the query for the current contact list fails inside Follow or
\* Unfollow, the operation returns an error and publishes no contact list.
C20_FailedQuerySurfaced ==
    \A k \in 1..Len(flog) :
        (WasConnected(flog[k]) /\ ~flog[k].answer.ok) =>
            /\ flog[k].published = <<>>
            /\ flog[k].result \notin {"ok", "already_following", "not_following"}

\* a messaging operation is entered in this step
MsgOpStarts ==
    \E g \in Goroutines :
        /\ mpc[g] = "idle"
        /\ mpc'[g] # "idle" \/ Len(mlog') = Len(mlog) + 1

NotConnectedErrors == {"no connected relay", "not connected to relay"}

\* C21: an operation that uses the relay, called while the session has no
\* relay connection, fails at once with a not-connected error, before any
\* encryption, signing, connection attempt, relay request or cache change.
C21_NotConnectedFailsFast ==
    [][(~connected /\ MsgOpStarts) =>
          /\ Len(mlog') = Len(mlog) + 1
          /\ mlog'[Len(mlog')].err \in NotConnectedErrors
          /\ mlog'[Len(mlog')].handed = <<>>
          /\ UNCHANGED <<connected, chatCache, likeCache, profileCache,
                         dmStore>>]_vars

\* C21 for ToggleLike and PublishMetadata, which test the relay first
NotConnectedFailsFast_Checked ==
    [][(/\ ~connected
        /\ MsgOpStarts
        /\ Len(mlog') = Len(mlog) + 1
        /\ mlog'[Len(mlog')].op \in {"ToggleLike", "PublishMetadata"}) =>
          /\ mlog'[Len(mlog')].err \in NotConnectedErrors
          /\ mlog'[Len(mlog')].handed = <<>>
          /\ UNCHANGED <<connected, chatCache, likeCache, profileCache,
                         dmStore>>]_vars

\* the change a returned call asked for is visible in a contact list
Reflects(r, ev) == IF r.op = "Follow" THEN HasP(ev, r.arg) ELSE ~HasP(ev, r.arg)

\* the call found something to change in the list it read
Applicable(r) ==
    IF r.op = "Follow"
    THEN ~AlreadyFollowing(CurrentEvent(r.answer.events), r.arg)
    ELSE AlreadyFollowing(CurrentEvent(r.answer.events), r.arg)

\* two calls that ran concurrently on the same latest contact list
ReadSameList(r1, r2) ==
    /\ r1.caller # r2.caller
    /\ r1.arg # r2.arg
    /\ r1.answer.ok /\ r2.answer.ok
    /\ r1.store = r2.store
    /\ CurrentEvent(r1.answer.events) = CurrentEvent(r2.answer.events)
    /\ Applicable(r1) /\ Applicable(r2)

\* C22: Follow and Unfollow are an unlocked read-modify-write: two concurrent
\* calls that read the same latest contact list both publish, each published
\* list carries only its own change, and no list they put at the relay has
\* both.
C22_ConcurrentUpdateLost ==
    \A k1, k2 \in 1..Len(flog) :
        (k1 < k2 /\ ReadSameList(flog[k1], flog[k2])) =>
            /\ Len(flog[k1].published) = 1
            /\ Len(flog[k2].published) = 1
            /\ Reflects(flog[k1], flog[k1].published[1])
            /\ ~Reflects(flog[k2], flog[k1].published[1])
            /\ Reflects(flog[k2], flog[k2].published[1])
            /\ ~Reflects(flog[k1], flog[k2].published[1])
            /\ \A i \in 1..Len(relayStore) :
                  (/\ \A j \in 1..Len(flog[k1].store) :
                         relayStore[i] # flog[k1].store[j]
                   /\ \A k \in 1..Len(flog) :
                         (k # k1 /\ k # k2) =>
                            \A j \in 1..Len(flog[k].published) :
                               relayStore[i] # flog[k].published[j])
                     => ~(/\ Reflects(flog[k1], relayStore[i])
                          /\ Reflects(flog[k2], relayStore[i]))

C22_Witness ==
    /\ Len(flog) = 2
    /\ ReadSameList(flog[1], flog[2])
    /\ flog[1].store = <<ContactListA>>
    /\ flog[1].op = "Follow" /\ flog[2].op = "Unfollow"
    /\ flog[1].accepted /\ flog[2].accepted
    /\ Len(relayStore) = 3

\* C23: EnsureIdentity generates and saves a new identity, with wasCreated
\* true, only when no file exists at the path; every later EnsureIdentity of
\* that path returns the same identity with wasCreated false.
C23_IdentityCreatedOnce ==
    /\ \A k \in 1..Len(idlog) :
         idlog[k].wasCreated =>
            /\ ~idlog[k].before.exists
            /\ idlog[k].err = ""
            /\ idlog[k].after.exists
            /\ LoadIdentity(idlog[k].after).identity = idlog[k].identity
    /\ \A k \in 1..Len(idlog) :
         (idlog[k].after # idlog[k].before) =>
            ~idlog[k].before.exists
    /\ \A k1, k2 \in 1..Len(idlog) :
         (k1 < k2 /\ idlog[k1].wasCreated /\ idlog[k2].path = idlog[k1].path)
            => /\ idlog[k2].err = ""
               /\ ~idlog[k2].wasCreated
               /\ idlog[k2].identity = idlog[k1].identity
               /\ idlog[k2].identity.PublicKey
                     = GetPublicKey(idlog[k2].identity.PrivateKey)

C23_Witness ==
    /\ Len(idlog) = 3
    /\ idlog[1].wasCreated
    /\ idlog[2].path = idlog[1].path
    /\ idlog[3].path = idlog[1].path
    /\ ~idlog[3].wasCreated
    /\ idlog[3].identity = idlog[1].identity
    /\ idlog[3].identity # NilIdentity

\* a handled write that was applied to the cache: its content parsed as a
\* profile and, for PublishMetadata, the relay took the event
AppliedWrite(w) == w.done /\ w.content.t = "profile"

AppliedTo(pubkey) ==
    {k \in 1..Len(plog) : plog[k].pubkey = pubkey /\ AppliedWrite(plog[k])}

LastApplied(pubkey) ==
    CHOOSE k \in AppliedTo(pubkey) : \A j \in AppliedTo(pubkey) : j <= k

CachedKeys == {profileCache[i].pubkey : i \in 1..Len(profileCache)}

\* C24: the profile cache is last-writer-wins by arrival order and never
\* invalidated: the entry of a pubkey is the profile of the most recently
\* applied parseable write for it, whatever the created-at values, and a
\* pubkey that was written once has an entry ever after.
C24_ProfileCacheLastWriterWins ==
    /\ \A i, j \in 1..Len(profileCache) :
         profileCache[i].pubkey = profileCache[j].pubkey => i = j
    /\ CachedKeys = {plog[k].pubkey : k \in {j \in 1..Len(plog) :
                                                 AppliedWrite(plog[j])}}
    /\ \A pubkey \in CachedKeys :
         LET w == plog[LastApplied(pubkey)]
         IN getProfileFromCache(pubkey) =
               [name |-> w.content.name, picture |-> w.content.picture]

C24_Witness ==
    /\ Len(plog) = 3
    /\ \E k1, k2, k3 \in 1..3 :
          /\ k1 < k2
          /\ plog[k1].via = "processEvent" /\ plog[k2].via = "FetchProfile"
          /\ plog[k1].pubkey = plog[k2].pubkey
          /\ AppliedWrite(plog[k1]) /\ AppliedWrite(plog[k2])
          /\ plog[k2].createdAt < plog[k1].createdAt
          /\ plog[k2].content # plog[k1].content
          /\ getProfileFromCache(plog[k2].pubkey).picture
                = plog[k2].content.picture
          /\ plog[k3].via = "PublishMetadata" /\ AppliedWrite(plog[k3])
          /\ plog[k3].pubkey # plog[k1].pubkey
          /\ getProfileFromCache(plog[k3].pubkey).name = "bob"

\* the event MineEvent builds for nonce n when the clock reads t
Candidate(n, t) ==
    LET e1 == [event EXCEPT
                  !.Tags = SetNonceTag(event.Tags,
                                       <<"nonce", Itoa(n), Itoa(target)>>),
                  !.CreatedAt = t]
    IN [e1 EXCEPT !.ID = GetID(e1)]

\* a nonce the search has still to try yields a qualifying id, whenever it
\* is tried
SomeNonceQualifies ==
    \E n \in nonce..MaxNonce :
       \A t \in clock..MaxClock :
          ZeroBitsOfHex(Candidate(n, t).ID) >= target

\* C25: MineEvent has no error outcome: the search ends only by returning
\* the mined event with a nil error, and when some nonce still to be tried
\* yields an id with at least the target number of leading zero bits the
\* search eventually returns.
C25_MineEventReturns ==
    /\ [][pc = "mining" => /\ pc' \in {"mining", "mined"}
                           /\ result' = ""]_vars
    /\ [](result # "failed to mine event")
    /\ (pc = "mining" /\ SomeNonceQualifies) ~> (pc = "mined" /\ result = "")

C25_Witness ==
    /\ pc = "mined"
    /\ result = ""
    /\ attempts >= 4
    /\ target >= 3
    /\ op = "SendEncryptedMessage"

\* ToggleLike of goroutine g has published its event and goes on to the cache
LikePublished(g) ==
    /\ mpc[g] = "idle"
    /\ mpc'[g] = "sent"
    /\ mheld'[g].op = "ToggleLike"

\* ToggleLike of goroutine g returns its LikeResult
LikeReturns(g) ==
    /\ mpc[g] = "sent"
    /\ mheld[g].op = "ToggleLike"
    /\ mpc'[g] = "idle"

\* C26: ToggleLike on a post not in the like cache publishes a kind-7
\* reaction to the post, records post -> reaction id and returns IsLiked =
\* true (the like branch); on a post in the cache it publishes a kind-5
\* deletion referencing the recorded reaction id, removes the entry and
\* returns IsLiked = false; when a successful call returns, IsPostLiked of
\* the post equals the returned IsLiked.
C26_ToggleLikeAlternates ==
    [][\A g \in Goroutines :
          /\ LikePublished(g) =>
                LET post == mheld'[g].postId
                    ev == mheld'[g].ev
                IN IF ~IsPostLiked(post)
                   THEN /\ ~mheld'[g].unlike
                        /\ ev.Kind = 7
                        /\ ev.Tags = << <<"e", post>> >>
                        /\ ev.Content = Text("+")
                   ELSE /\ mheld'[g].unlike
                        /\ ev.Kind = 5
                        /\ ev.Tags = << <<"e", IdText(likeCache[post][1])>> >>
          /\ LikeReturns(g) =>
                LET post == mheld[g].postId
                    isLiked == mheld[g].ev.Kind = 7
                IN /\ Len(mlog') = Len(mlog) + 1
                   /\ mlog'[Len(mlog')].err = ""
                   /\ mlog'[Len(mlog')].handed = <<mheld[g].ev>>
                   /\ \A p \in Posts : p = post => IsPostLiked(p)' = isLiked
                   /\ isLiked => likeCache'[post] = <<mheld[g].ev.ID>>
                   /\ \A other \in Posts \ {post} :
                         likeCache'[other] = likeCache[other]]_vars

C26_Witness ==
    /\ Len(mlog) = 2
    /\ mlog[1].op = "ToggleLike" /\ mlog[1].accepted
    /\ mlog[2].op = "ToggleLike" /\ mlog[2].accepted
    /\ mlog[1].arg = mlog[2].arg
    /\ mlog[1].handed[1].Kind = 7
    /\ mlog[2].handed[1].Kind = 5
    /\ mlog[2].handed[1].Tags = << <<"e", IdText(mlog[1].handed[1].ID)>> >>
    /\ mlog[1].wrote = << <<mlog[1].handed[1].ID>> >>
    /\ ~IsPostLiked(mlog[2].arg)

\* C27: MineEvent recomputes the id after every change of the nonce tag and
\* of the timestamp: at each difficulty check, and from then on until it has
\* returned, event.ID is the hash of the current pubkey, created-at, kind,
\* tags and content, and the check is made on that id.
C27_IdRecomputedEachAttempt ==
    /\ []((pc \in {"mining", "mined"} /\ attempts >= 1)
             => event.ID = GetID(event))
    /\ [][attempts' = attempts + 1 =>
             /\ event'.ID = GetID(event')
             /\ event'.Tags[FirstNonce(event'.Tags, 1)]
                   = <<"nonce", Itoa(nonce), Itoa(target)>>
             /\ (pc' = "mined") = CheckDifficulty(GetID(event'), target)]_vars

C27_Witness ==
    /\ pc = "mined"
    /\ op = "SendEncryptedMessage"
    /\ attempts >= 2
    /\ event.CreatedAt # orig.CreatedAt
    /\ event.ID = GetID(event)
    /\ event.ID # GetID(orig)

\* C29: every attempt of MineEvent sets created-at to the clock it reads, so
\* the event MineEvent returns carries the clock of the final attempt, which
\* stays in the event up to signing, not the created-at of the caller.
C29_CreatedAtIsClockOfAttempt ==
    [][/\ attempts' = attempts + 1 =>
             /\ clock' = clock
             /\ event'.CreatedAt = clock
       /\ (pc = "mined" /\ pc' \in {"mined", "signed"}) =>
             event'.CreatedAt = event.CreatedAt]_vars

C29_Witness ==
    /\ pc = "signed"
    /\ attempts >= 2
    /\ orig.CreatedAt = 0
    /\ event.CreatedAt = 2

\* C30: Close while MineEvent is searching does not interrupt the search:
\* Close leaves the operation as it is, the search leaves only by finding a
\* qualifying id, and an operation that was mining goes from the mined event
\* to its signing step.
C30_CloseDoesNotStopSearch ==
    [][/\ cancelled' # cancelled =>
             /\ pc = "mining"
             /\ UNCHANGED sendVars
       /\ pc = "mining" => pc' \in {"mining", "mined"}
       /\ (pc = "mining" /\ pc' = "mined") =>
             ZeroBitsOfHex(event'.ID) >= target
       /\ (pc = "mined" /\ op # "MineEvent" /\ pc' # "mined") =>
             \/ pc' = "signed" /\ event'.Sig # NoSig
             \/ pc' = "done" /\ result' = "failed to sign event"]_vars

C30_Witness ==
    /\ cancelled
    /\ pc = "signed"
    /\ op = "SendEncryptedMessage"
    /\ attempts >= 3
    /\ target >= 3

\* the bits of a byte, most significant first
BitsOfByte(b) == [i \in 1..8 |-> (b \div (2 ^ (8 - i))) % 2]

RECURSIVE BitsOf(_)
BitsOf(data) ==
    IF data = <<>> THEN <<>> ELSE BitsOfByte(Head(data)) \o BitsOf(Tail(data))

\* the number of zero bits before the first one bit, all of them when there
\* is no one bit
ZerosBeforeFirstOne(bits) ==
    IF \E i \in 1..Len(bits) : bits[i] = 1
    THEN (CHOOSE i \in 1..Len(bits) :
             bits[i] = 1 /\ \A j \in 1..(i - 1) : bits[j] = 0) - 1
    ELSE Len(bits)

\* the text is made of hex digits, two for each byte
IsHexText(s) == Len(s) % 2 = 0 /\ \A i \in 1..Len(s) : s[i] < 16

\* C28: countLeadingZeroBits returns the number of zero bits before the
\* first one bit of the bytes read most significant byte first (8 times the
\* length for an all-zero string), and CheckDifficulty(id, d) is true exactly
\* when id is valid hex and that count is at least d.
C28_LeadingZeroBitsAndCheck ==
    checked.called =>
        /\ IsHexText(checked.id) =>
              /\ checked.zeros
                    = ZerosBeforeFirstOne(BitsOf(HexDecode(checked.id)))
              /\ (\A i \in 1..Len(checked.id) : checked.id[i] = 0) =>
                    checked.zeros = 8 * (Len(checked.id) \div 2)
        /\ checked.result
              = (/\ IsHexText(checked.id)
                 /\ ZerosBeforeFirstOne(BitsOf(HexDecode(checked.id)))
                       >= checked.difficulty)

C28_Witness ==
    /\ checked.called
    /\ checked.id = <<0, 0, 0, 3>>
    /\ checked.zeros = 14
    /\ checked.difficulty = 14
    /\ checked.result

\* the contact list a call works on, read off what the call did: ev when it
\* is a list, absent otherwise
FollowTook(r, absent, ev) ==
    IF absent
    THEN PublishedList(r, << <<"p", r.arg>> >>, Text(""))
    ELSE IF HasP(ev, r.arg)
         THEN r.result = "already_following" /\ r.published = <<>>
         ELSE PublishedList(r, ev.Tags \o << <<"p", r.arg>> >>, ev.Content)

UnfollowTook(r, absent, ev) ==
    IF absent \/ ~HasP(ev, r.arg)
    THEN r.result = "not_following" /\ r.published = <<>>
    ELSE PublishedList(r, WithoutP(ev.Tags, r.arg), ev.Content)

PTagValues(tags) ==
    LET IsP(t) == Len(t) >= 2 /\ t[1] = "p"
        ps == SelectSeq(tags, IsP)
    IN [i \in 1..Len(ps) |-> ps[i][2]]

GetFollowingTook(r, absent, ev) ==
    IF absent
    THEN r.result.json = "[]"
    ELSE r.result.items = PTagValues(ev.Tags)

\* C31: Follow, Unfollow and GetFollowing work on the event with the greatest
\* created-at among the kind-3 events the query returned, whatever their order
\* in the answer; when the query returned no event they work as if there were
\* no contact list.
C31_LatestReturnedIsCurrent ==
    /\ \A k \in 1..Len(flog) :
          WasConnected(flog[k]) =>
             LET r == flog[k]
                 events == r.answer.events
             IN IF events = <<>>
                THEN IF r.op = "Follow" THEN FollowTook(r, TRUE, NoEvent)
                     ELSE UnfollowTook(r, TRUE, NoEvent)
                ELSE \E i \in LatestOf(events) :
                        IF r.op = "Follow" THEN FollowTook(r, FALSE, events[i])
                        ELSE UnfollowTook(r, FALSE, events[i])
    /\ \A k \in 1..Len(gflog) :
          LET r == gflog[k]
              events == r.answer.events
          IN IF events = <<>>
             THEN GetFollowingTook(r, TRUE, NoEvent)
             ELSE \E i \in LatestOf(events) :
                     GetFollowingTook(r, FALSE, events[i])

\* a Follow that published and a GetFollowing were each answered with two
\* events, the older one first, and the two events differ in the p tags
C31_Witness ==
    /\ \E k \in 1..Len(flog) :
          /\ Len(flog[k].answer.events) = 2
          /\ flog[k].answer.events[1].CreatedAt
                < flog[k].answer.events[2].CreatedAt
          /\ flog[k].result = "ok"
    /\ \E k \in 1..Len(gflog) :
          /\ Len(gflog[k].answer.events) >= 2
          /\ gflog[k].answer.events[1].CreatedAt
                < gflog[k].answer.events[2].CreatedAt
          /\ PTagValues(gflog[k].answer.events[1].Tags)
                # PTagValues(gflog[k].answer.events[2].Tags)
          /\ gflog[k].result.json = "array"

\* a ToggleLike of the post that published its event and returned
ToggledAt(k, post) ==
    /\ mlog[k].op = "ToggleLike"
    /\ mlog[k].arg = post
    /\ mlog[k].accepted

\* the calls logged at k1 and k2 both took the like branch on the post with
\* no toggle of the post returning between them: the second read the cache
\* before the first had written it
BothLiked(k1, k2, post) ==
    /\ k1 < k2
    /\ ToggledAt(k1, post) /\ ToggledAt(k2, post)
    /\ mlog[k1].handed[1].Kind = 7
    /\ mlog[k2].handed[1].Kind = 7
    /\ \A k \in (k1 + 1)..(k2 - 1) : ~ToggledAt(k, post)

\* C32: the check of the like cache and its update are separate steps of
\* ToggleLike: two calls for the same post that both read it as not liked
\* both publish a kind-7 reaction to the post, and the like cache then holds
\* one reaction id for the post, the one of the call that wrote last.
C32_ConcurrentLikesKeepOneId ==
    \A post \in Posts :
        /\ Len(likeCache[post]) <= 1
        /\ \A k1, k2 \in 1..Len(mlog) :
              BothLiked(k1, k2, post) =>
                 /\ mlog[k1].handed[1].Tags = << <<"e", post>> >>
                 /\ mlog[k2].handed[1].Tags = << <<"e", post>> >>
                 /\ mlog[k1].wrote = << <<mlog[k1].handed[1].ID>> >>
                 /\ mlog[k2].wrote = << <<mlog[k2].handed[1].ID>> >>
                 /\ (\A k \in (k2 + 1)..Len(mlog) : ~ToggledAt(k, post)) =>
                       likeCache[post] = <<mlog[k2].handed[1].ID>>

\* two reactions with different ids were published for one post and the cache
\* holds the second only
C32_Witness ==
    \E post \in Posts :
        /\ Len(mlog) = 2
        /\ BothLiked(1, 2, post)
        /\ mlog[1].handed[1].ID # mlog[2].handed[1].ID
        /\ likeCache[post] = <<mlog[2].handed[1].ID>>

\* C33: GetProfile(pubkey) reports cached:true, with the stored name and
\* picture, exactly when the profile cache has an entry for the pubkey, and
\* cached:false exactly when it has none.
C33_GetProfileReportsEntry ==
    got.called =>
        IF got.entry = <<>>
        THEN got.result = [pubkey |-> got.pubkey, cached |-> FALSE]
        ELSE /\ got.result.cached
             /\ got.result.pubkey = got.pubkey
             /\ got.result.name = [escaped |-> got.entry[1].profile.name]
             /\ got.result.picture = [escaped |-> got.entry[1].profile.picture]

\* the content has one of the media extensions at some position, the last
\* possible one included
ContainsExtension(content) ==
    \E e \in 1..Len(exts) :
        \E i \in 1..(Len(content) - Len(exts[e]) + 1) :
            SubSeq(content, i, i + Len(exts[e]) - 1) = exts[e]

\* C34: GetUserMedia keeps exactly the fetched events whose content contains
\* one of the media extensions at any position, the very end included, and
\* returns at most limit of them.
C34_MediaKeptAnywhere ==
    (media.called /\ media.err = "") =>
        LET Has(evt) == ContainsExtension(evt.Content)
            kept == SelectSeq(media.events, Has)
        IN /\ Len(media.result) <= media.limit
           /\ \A i \in 1..Len(media.result) : Has(media.result[i])
           /\ Len(kept) <= media.limit => media.result = kept

\* every latest contact list of the store has a p tag for x
LatestHasP(store, x) ==
    store # <<>> /\ \A i \in LatestOf(store) : HasP(store[i], x)

\* the store has no contact list, or none of its latest lists has a p tag
LatestLacksP(store, x) ==
    \A i \in LatestOf(store) : ~HasP(store[i], x)

NoOpFollow(r) ==
    (r.op = "Follow" /\ LatestHasP(r.store, r.arg)) =>
        r.result = "already_following" /\ r.published = <<>>

NoOpUnfollow(r) ==
    (r.op = "Unfollow" /\ LatestLacksP(r.store, r.arg)) =>
        r.result = "not_following" /\ r.published = <<>>

\* C35: Follow(X) when the latest contact list already has a p tag for X
\* returns "already_following", and Unfollow(X) when there is no contact list
\* or it has no p tag for X returns "not_following"; neither signs or
\* publishes an event, so the relay's contact list stays as it was.
C35_RepeatedFollowIsNoOp ==
    \A k \in 1..Len(flog) :
        WasConnected(flog[k]) => NoOpFollow(flog[k]) /\ NoOpUnfollow(flog[k])

\* the same for the calls whose query for the contact list was answered
RepeatedFollowIsNoOp_QueryAnswered ==
    \A k \in 1..Len(flog) :
        (WasConnected(flog[k]) /\ flog[k].answer.ok) =>
            NoOpFollow(flog[k]) /\ NoOpUnfollow(flog[k])

\* the file was there when EnsureIdentity ran but could not be read or parsed
Unloadable(file) == file.exists /\ (~file.readable \/ ~file.whole)

\* C36: when the identity file exists but cannot be read or parsed,
\* EnsureIdentity returns an error, generates no key pair and leaves the file
\* as it is; it generates and saves an identity only when the file does not
\* exist.
C36_UnloadableFileIsKept ==
    \A k \in 1..Len(idlog) :
        /\ Unloadable(idlog[k].before) =>
              /\ idlog[k].err = "failed to load identity"
              /\ idlog[k].identity = NilIdentity
              /\ ~idlog[k].wasCreated
              /\ idlog[k].after = idlog[k].before
        /\ (idlog[k].wasCreated \/ idlog[k].after # idlog[k].before) =>
              ~idlog[k].before.exists

\* a file left incomplete was first found unparsable and, once unreadable,
\* found unreadable, and is still what the failed write left
C36_Witness ==
    /\ Len(idlog) = 3
    /\ idlog[1].err = "failed to save identity"
    /\ idlog[2].path = idlog[1].path /\ idlog[3].path = idlog[1].path
    /\ idlog[2].before.exists /\ idlog[2].before.readable
    /\ ~idlog[2].before.whole
    /\ ~idlog[3].before.readable
    /\ idlog[3].err = "failed to load identity"
    /\ idFiles[idlog[1].path].data = idlog[1].after.data

\* the caches whose lock goroutine g holds, for writing or for reading
HeldBy(g) == {c \in Caches : wlock[c] = g \/ g \in rlock[c]}

\* goroutine g is inside Lock or RLock of cache c
WaitsFor(g, c) ==
    /\ gprog[g] # <<>>
    /\ Head(gprog[g]).do \in {"Lock", "RLock"}
    /\ Head(gprog[g]).c = c

\* the only acquisition made with a lock held
NestedOnlyChatThenProfile ==
    \A g \in Goroutines :
        /\ ("profile" \in HeldBy(g)) =>
              \A c \in Caches : ~WaitsFor(g, c)
        /\ \A c \in Caches :
              (WaitsFor(g, c) /\ HeldBy(g) # {}) =>
                  /\ c = "profile"
                  /\ Head(gprog[g]).do = "RLock"
                  /\ HeldBy(g) = {"chat"}
                  /\ g \in rlock["chat"]
                  /\ gprog[g] = SubSeq(GetConversationListSteps, 3,
                                       Len(GetConversationListSteps))

\* C37: the cache locks cannot deadlock: the only acquisition made while a
\* lock is held is GetConversationList taking the profile read lock inside
\* the chat read lock, nothing is acquired while the profile lock is held,
\* and every goroutine waiting for a cache lock eventually gets it.
C37_CacheLocksNoDeadlock ==
    /\ []NestedOnlyChatThenProfile
    /\ \A g \in Goroutines : \A c \in Caches :
          WaitsFor(g, c) ~> (c \in HeldBy(g))

\* GetConversationList waits for the profile lock inside the chat lock while
\* a writer of the profile cache holds it
C37_Witness ==
    /\ WaitsFor(1, "profile")
    /\ HeldBy(1) = {"chat"}
    /\ wlock["profile"] = 2

\* the messages of a conversation with the greatest created-at
NewestOf(msgs) ==
    {i \in 1..Len(msgs) :
        \A j \in 1..Len(msgs) : msgs[j].CreatedAt <= msgs[i].CreatedAt}

\* C38: after any SendDirectMessage and DebugFetchMessages calls,
\* GetConversationList returns one entry per partner with a cached message,
\* carrying that partner's message of greatest created-at as last message
\* and timestamp, the entries in descending order of timestamp.
C38_ConversationListShowsNewest ==
    convs.called =>
        LET list == convs.list
            cache == convs.cache
            partners == {p \in DOMAIN cache : cache[p] # <<>>}
        IN /\ Len(list) = Cardinality(partners)
           /\ \A p \in partners :
                 \E i \in 1..Len(list) :
                    /\ list[i].PartnerPubkey = p
                    /\ \E k \in NewestOf(cache[p]) :
                          /\ list[i].LastMessage = cache[p][k].Content
                          /\ list[i].Timestamp = cache[p][k].CreatedAt
           /\ \A i, j \in 1..Len(list) :
                 i < j => list[i].Timestamp >= list[j].Timestamp

\* the same when every conversation is in ascending order of created-at at
\* the call
ConversationListShowsNewest_Sorted ==
    (convs.called /\ \A p \in DOMAIN convs.cache :
                        \A i, j \in 1..Len(convs.cache[p]) :
                            i < j => convs.cache[p][i].CreatedAt
                                        <= convs.cache[p][j].CreatedAt)
        => C38_ConversationListShowsNewest

\* the inbox of the local client decrypted the delivered event
InboxDecrypted ==
    /\ Len(delivery.inbox) = 1
    /\ "content" \in DOMAIN delivery.inbox[1]
    /\ delivery.inbox[1].content = escapeJSON(delivery.content.bytes)

\* DebugFetchMessages of the local client decrypted the delivered event
FetchDecrypted ==
    /\ Len(delivery.fetched) = 1
    /\ delivery.fetched[1].ID = delivery.event.ID
    /\ delivery.fetched[1].Content = delivery.content.s

\* the local identity holds a usable private key
UsableIdentity == SignOk(identity.PrivateKey)

\* C39: a kind-4 event produced by either send path (SendEncryptedMessage or
\* SendDirectMessage) for a recipient is decrypted by both receive paths of
\* the recipient's client, the inbox processEvent and DebugFetchMessages.
C39_AllPathsSameCipher ==
    (delivery.called /\ delivery.sent /\ UsableIdentity) =>
        InboxDecrypted /\ FetchDecrypted

\* each send path is decrypted by the receive path of its own scheme
SamePathsSameCipher ==
    (delivery.called /\ delivery.sent /\ UsableIdentity) =>
        IF delivery.path = "SendEncryptedMessage"
        THEN InboxDecrypted /\ ~FetchDecrypted
        ELSE FetchDecrypted /\ ~InboxDecrypted


\* the events the forwarding goroutine has put on eventChan so far: those a
\* dispatch loop has received, then those still waiting in the channel
Forwarded == [k \in 1..Len(inlog) |-> inlog[k].event] \o eventChan

====
